---- MODULE Spec2Model ----
(***************************************************************************)
(* Model of the sampler (mistralrs-core/src/sampler.rs) and of the         *)
(* speculative decoding pipeline (mistralrs-core/src/pipeline/             *)
(* speculative.rs), and of the KV-cache block manager as the               *)
(* specification describes it (section 4.3; its code is not part of the    *)
(* sources at hand), of the chat template's calculate_eos_tokens and       *)
(* tojson (pipeline/chat_template.rs), of the mllama text model            *)
(* (vision_models/mllama/text.rs) and of PagedAttention::forward           *)
(* (paged_attention/layers/paged_attention.rs).                            *)
(*                                                                         *)
(* Number representation.                                                  *)
(*  - A token id t (0-based, u32) indexes a vector at position t + 1.      *)
(*  - A logit is represented by the positive integer w with logit = ln w,  *)
(*    so softmax(logits / 1.0)[t] = w[t] / sum(w) exactly, a difference of *)
(*    logits is a quotient of weights and relu(ln r) = ln(max(1, r)).      *)
(*  - A vector of f32 values handed to the weighted draw is a record       *)
(*    [n |-> numerators, d |-> common denominator], value[t] = n[t+1] / d. *)
(*  - top_p and logit-bias values are in tenths.                           *)
(*  - log10 is tabulated in thousandths over the tenths 0.1 .. 6.0.        *)
(*  - A sampler without temperature reads the logits vector as the logits  *)
(*    themselves, in tenths (no softmax is taken, so no ln is needed).     *)
(*  - A temperature is a number of 1e-8; penalties are in tenths.          *)
(*  - Option values: None is <<>> and Some(x) is <<x>>.                    *)
(***************************************************************************)
EXTENDS Integers, Sequences, FiniteSets, TLC

\* ------------------------------------------------------------------ bounds
\* Length of the longest logits vector handed to the sampler on its own.
MaxLen == 3
\* Vocabulary size of the two models of the speculative pipeline.
NumTokens == 2
\* Largest gamma (number of draft completions per step).
MaxGamma == 2
\* Longest committed token list for which a further step is scheduled.
MaxSeqLen == 3
\* Number of blocks of the KV-cache pool and of sequence ids of its tables.
NumBlocks == 3
NumSeqIds == 2
\* Number of layers of the two models of the speculative pipeline.
NumLayers == 2
\* Most decoder layers of an MLlamaTextModel, and the number of its forward
\* calls under observation.
MaxModelLayers == 2
MaxForwardCalls == 2
\* Slots of the paged KV cache, and most tokens of one PagedAttention::forward.
NumSlots == 3
MaxNewTokens == 2

VARIABLES
    \* Sampler fields (sampler.rs:38-48)
    topk, topp, logits_bias,
    \* the temperature handed to Sampler::new and the other Sampler fields
    temperature_arg, temperature, top_n_logprobs, repeat_penalty, presence_penalty,
    \* the last call of Sampler::sample: its logits and what it returned
    smp_pc, smp_logits, smp_result,
    \* the Sampler's rng, and the other two arguments of the last call
    rng, smp_ctxt, smp_return_logprobs,
    \* SpeculativePipeline::new: its outcome, the two tokenizers' vocabularies,
    \* the two models and gamma (speculative.rs:93-125)
    pipeline, target_vocab, draft_vocab, target_model, draft_model, gamma,
    \* the Sequence: committed tokens, prefill override, state, the tokens fed
    \* to its recognizer
    seq_toks, seq_prefill, seq_state, seq_rx,
    \* SpeculativePipeline::step: position, parameters and locals
    pc, is_prompt, disable_eos_stop, loop_i, tok_l, tgt_logits, draft_samples,
    samples, accepted_tokens,
    \* observation of the running step: the token list at step entry, how each
    \* accepted token was obtained, the number of draft positions examined and
    \* the accepted tokens committed so far with the index of the first stop
    entry_toks, accepted_how, examined, committed, stop_at,
    \* the KV caches of the draft and of the target model, and the copy of the
    \* target cache the Sequence keeps: per layer None or the number of
    \* positions (dims()[2]) of the K/V tensors it holds
    draft_cache, target_cache, seq_cache,
    \* the post_op cache instruction handed to step, and observation of the
    \* running step: the operations it has performed so far and how the last
    \* step returned
    post_op, step_ops, step_result,
    \* the KV-cache block manager: the free-list of block ids, the table
    \* blocks[seq_id] of block handles, the refcount per block, the number of
    \* tokens each table was sized for, and the last operation with its outcome
    free_list, blocks, refcount, seq_tokens, bm_last,
    \* the K/V storage: what each slot of each block holds, and the number of
    \* positions each sequence has committed (written or inherited by fork)
    kv, seq_written,
    \* observation: the sequence each sequence was forked from (0: none)
    forked_from,
    \* calculate_eos_tokens (chat_template.rs:94-166): the template's
    \* eos_token, the generation config's eos_token_id list, the tokenizer's
    \* vocabulary, the position of the call and what it returned
    eos_token, gen_conf, vocab, eos_pc, eos_toks,
    \* tojson (chat_template.rs:177-209): the value, the indent keyword
    \* argument, the position of the call and the string returned
    tj_value, tj_indent, tj_pc, tj_result,
    \* MLlamaTextModel (mllama/text.rs:364-373): its decoder layers, the two
    \* caches with the state of their locks; forward: position, layer index,
    \* arguments, hidden states, the outcome and the calls made so far
    ml_layers, ml_self_cache, ml_cross_cache, ml_self_lock, ml_cross_lock,
    ml_pc, ml_i, ml_input_ids, ml_cross_attn_states, ml_hidden_states, ml_result,
    ml_calls,
    \* PagedAttention::forward (paged_attention.rs:68-240): the cache tensors
    \* by slot, the arguments of the call, its position, the prefill result att
    \* and what it returned; observation: the caches at entry and the cache
    \* operations of the call in order
    pa_k_cache, pa_v_cache, pa_query, pa_key, pa_value, pa_mask, pa_kv_cache,
    pa_slot_mapping, pa_pc, pa_att, pa_result, pa_entry, pa_ops

sampler_vars == <<topk, topp, logits_bias, temperature_arg, temperature,
                  top_n_logprobs, repeat_penalty, presence_penalty>>
call_vars == <<smp_pc, smp_logits, smp_result, rng, smp_ctxt, smp_return_logprobs>>
pipeline_vars == <<pipeline, target_vocab, draft_vocab, target_model, draft_model, gamma>>
seq_vars == <<seq_toks, seq_prefill, seq_state, seq_rx>>
step_vars == <<pc, is_prompt, disable_eos_stop, loop_i, tok_l, tgt_logits,
               draft_samples, samples, accepted_tokens>>
obs_vars == <<entry_toks, accepted_how, examined, committed, stop_at>>
cache_vars == <<draft_cache, target_cache, seq_cache>>
run_vars == <<post_op, step_ops, step_result>>
spec_vars == <<pipeline_vars, seq_vars, step_vars, obs_vars, cache_vars, run_vars>>
eos_vars == <<eos_token, gen_conf, vocab, eos_pc, eos_toks>>
tojson_vars == <<tj_value, tj_indent, tj_pc, tj_result>>
template_vars == <<eos_vars, tojson_vars>>
mllama_vars == <<ml_layers, ml_self_cache, ml_cross_cache, ml_self_lock, ml_cross_lock,
                 ml_pc, ml_i, ml_input_ids, ml_cross_attn_states, ml_hidden_states,
                 ml_result, ml_calls>>
paged_vars == <<pa_k_cache, pa_v_cache, pa_query, pa_key, pa_value, pa_mask, pa_kv_cache,
                pa_slot_mapping, pa_pc, pa_att, pa_result, pa_entry, pa_ops>>
attention_vars == <<mllama_vars, paged_vars>>
block_vars == <<free_list, blocks, refcount, seq_tokens, bm_last, kv, seq_written,
                forked_from>>

\* ----------------------------------------------------------- arithmetic
RECURSIVE SumUpTo(_, _)
SumUpTo(s, k) ==
    IF k = 0 THEN 0 ELSE s[k] + SumUpTo(s, k - 1)

SumSeq(s) ==
    SumUpTo(s, Len(s))

\* round(1000 * log10(k / 10)) for k = 1 .. 60: f32::log(10.0) on the tenths grid.
Log10Table ==
    << -1000, -699, -523, -398, -301, -222, -155, -97, -46, 0,
       41, 79, 114, 146, 176, 204, 230, 255, 279, 301,
       322, 342, 362, 380, 398, 415, 431, 447, 462, 477,
       491, 505, 519, 531, 544, 556, 568, 580, 591, 602,
       613, 623, 633, 643, 653, 663, 672, 681, 690, 699,
       708, 716, 724, 732, 740, 748, 756, 763, 771, 778 >>

\* The value n / d as a number of tenths (the grid log10 is tabulated on).
Tenths(n, d) ==
    (10 * n) \div d

\* probs[token].log(10.0), in thousandths.
Log10Milli(n, d) ==
    Log10Table[Tenths(n, d)]

\* candle_nn::ops::softmax_last_dim(logits / temperature) at temperature 1.0,
\* on logits ln w.
Softmax(w) ==
    [n |-> w, d |-> SumSeq(w)]

\* ------------------------------------------------------------- sampler
\* One bias entry <<id, tenths>> added to probs[id] (`*idx += bias_v`).
AddBias(probs, id, b) ==
    LET p == IF probs.d % 10 = 0 THEN probs
             ELSE [n |-> [j \in DOMAIN probs.n |-> 10 * probs.n[j]], d |-> 10 * probs.d]
    IN  [n |-> [j \in DOMAIN p.n |->
                   IF j = id + 1 THEN p.n[j] + b * (p.d \div 10) ELSE p.n[j]],
         d |-> p.d]

\* A bias step that skips the ids outside the vector.
RECURSIVE apply_logit_bias_in_range(_, _)
apply_logit_bias_in_range(probs, bias) ==
    IF bias = <<>> THEN [err |-> FALSE, probs |-> probs]
    ELSE LET id == Head(bias)[1]
             b  == Head(bias)[2]
         IN  IF id + 1 \in DOMAIN probs.n
             THEN apply_logit_bias_in_range(AddBias(probs, id, b), Tail(bias))
             ELSE apply_logit_bias_in_range(probs, Tail(bias))

\* Sampler::apply_logit_bias: add every entry of the bias map, in the order the
\* map yields them; an id outside the vector is an error.
RECURSIVE apply_logit_bias(_, _)
apply_logit_bias(probs, bias) ==
    IF bias = <<>> THEN [err |-> FALSE, probs |-> probs]
    ELSE LET id == Head(bias)[1]
             b  == Head(bias)[2]
         IN  IF id + 1 \in DOMAIN probs.n
             THEN apply_logit_bias(AddBias(probs, id, b), Tail(bias))
             ELSE [err |-> TRUE, probs |-> probs]

\* Stable insertion of index idx into a list sorted by descending n: the
\* comparator probs[j].partial_cmp(&probs[i]) of a stable sort_by.
RECURSIVE InsertDesc(_, _, _)
InsertDesc(sorted, idx, n) ==
    IF sorted = <<>> THEN <<idx>>
    ELSE IF n[Head(sorted)] >= n[idx]
         THEN <<Head(sorted)>> \o InsertDesc(Tail(sorted), idx, n)
         ELSE <<idx>> \o sorted

RECURSIVE ArgsortUpTo(_, _)
ArgsortUpTo(n, k) ==
    IF k = 0 THEN <<>> ELSE InsertDesc(ArgsortUpTo(n, k - 1), k, n)

\* argsort_indices after sort_by: positions of n by descending value.
ArgsortDesc(n) ==
    ArgsortUpTo(n, Len(n))

\* The top-k clamp: entries at sorted position >= top_k are set to 0.
ClampTopK(n, order, top_k) ==
    IF top_k > 0
    THEN [j \in DOMAIN n |->
            IF \E pos \in DOMAIN order : order[pos] = j /\ pos - 1 >= top_k
            THEN 0 ELSE n[j]]
    ELSE n

\* The strict variant of the top-p test (an index is zeroed only once the
\* accumulated mass exceeds top_p).
ReachedTopPStrict(cumsum, d, top_p) ==
    10 * cumsum > top_p * d

\* `cumsum >= top_p`, cumsum a sum of numerators over d, top_p in tenths.
ReachedTopP(cumsum, d, top_p) ==
    10 * cumsum >= top_p * d

\* A top-p walk that zeroes an index as soon as adding it reaches top_p (the
\* index that reaches the threshold is dropped instead of kept).
RECURSIVE ClampTopPExclusive(_, _, _, _, _, _)
ClampTopPExclusive(n, d, order, top_p, pos, cumsum) ==
    IF pos > Len(order) THEN n
    ELSE LET index == order[pos]
         IN  IF ReachedTopP(cumsum + n[index], d, top_p)
             THEN ClampTopPExclusive([n EXCEPT ![index] = 0], d, order, top_p,
                                     pos + 1, cumsum)
             ELSE ClampTopPExclusive(n, d, order, top_p, pos + 1, cumsum + n[index])

\* A top-p walk that zeroes the indices met before top_p is reached and keeps
\* the ones after.
RECURSIVE ClampTopPTail(_, _, _, _, _, _)
ClampTopPTail(n, d, order, top_p, pos, cumsum) ==
    IF pos > Len(order) THEN n
    ELSE LET index == order[pos]
         IN  IF ReachedTopP(cumsum, d, top_p)
             THEN ClampTopPTail(n, d, order, top_p, pos + 1, cumsum)
             ELSE ClampTopPTail([n EXCEPT ![index] = 0], d, order, top_p, pos + 1,
                                cumsum + n[index])

\* The top-p walk over argsort_indices from position pos on.
RECURSIVE ClampTopP(_, _, _, _, _, _)
ClampTopP(n, d, order, top_p, pos, cumsum) ==
    IF pos > Len(order) THEN n
    ELSE LET index == order[pos]
         IN  IF ReachedTopP(cumsum, d, top_p)
             THEN ClampTopP([n EXCEPT ![index] = 0], d, order, top_p, pos + 1, cumsum)
             ELSE ClampTopP(n, d, order, top_p, pos + 1, cumsum + n[index])

\* Sampler::sample_multinomial: WeightedIndex::new fails on an empty list, a
\* negative weight or a zero total; the draw returns an index of positive weight.
sample_multinomial(probs) ==
    IF \/ Len(probs.n) = 0
       \/ \E j \in DOMAIN probs.n : probs.n[j] < 0
       \/ SumSeq(probs.n) = 0
    THEN [err |-> TRUE, probs |-> probs, tokens |-> {}]
    ELSE [err |-> FALSE, probs |-> probs,
          tokens |-> {j - 1 : j \in {k \in DOMAIN probs.n : probs.n[k] > 0}}]

\* Sampler::sample_topkp
sample_topkp(probs, top_k, top_p) ==
    LET argsort_indices == ArgsortDesc(probs.n)
        afterk == ClampTopK(probs.n, argsort_indices, top_k)
    IN  IF top_p <= 0 \/ top_p >= 10
        THEN sample_multinomial([n |-> afterk, d |-> probs.d])
        ELSE sample_multinomial(
                 [n |-> ClampTopP(afterk, probs.d, argsort_indices, top_p, 1, 0),
                  d |-> probs.d])

\* Sampler::sample with a temperature set and no penalty configured: the
\* outcomes of one call, as [err, probs handed to the draw, tokens it may return].
sample(logits, bias, top_k, top_p) ==
    LET biased == apply_logit_bias(Softmax(logits), bias)
    IN  IF biased.err
        THEN [err |-> TRUE, probs |-> biased.probs, tokens |-> {}]
        ELSE sample_topkp(biased.probs, top_k, top_p)

\* ------------------------------------------- Sampler::new and ::sample
\* The threshold 1e-7 of Sampler::new, in units of 1e-8.
TemperatureFloor == 10

\* A constructor that stores the temperature as it is given.
new_temperature_kept(arg) ==
    arg

\* Sampler::new: a missing temperature or one below 1e-7 is stored as None.
new_temperature(arg) ==
    IF arg = <<>> \/ arg[1] < TemperatureFloor THEN <<>> ELSE arg

\* The first statement of sample: None leaves the logits as they are (read in
\* tenths), Some(1.0) takes the softmax (of logits ln w).
TemperatureStep(temp, logits) ==
    IF temp = <<>> THEN [n |-> logits, d |-> 10] ELSE Softmax(logits)

\* context.iter().filter(|x| **x as usize == token_id).count()
RECURSIVE Count(_, _)
Count(context, token_id) ==
    IF context = <<>> THEN 0
    ELSE (IF Head(context) = token_id THEN 1 ELSE 0) + Count(Tail(context), token_id)

\* Option::unwrap_or
unwrap_or(opt, default) ==
    IF opt = <<>> THEN default ELSE opt[1]

\* A penalty step that subtracts the presence penalty from every entry.
presence_penalty_everywhere(probs, presence_penalty_, repeat_penalty_, context) ==
    LET p == IF probs.d % 10 = 0 THEN probs
             ELSE [n |-> [j \in DOMAIN probs.n |-> 10 * probs.n[j]], d |-> 10 * probs.d]
    IN  [n |-> [j \in DOMAIN p.n |->
                   p.n[j] - (Count(context, j - 1) * repeat_penalty_ + presence_penalty_)
                            * (p.d \div 10)],
         d |-> p.d]

\* Sampler::apply_repeat_presence_penalty on the values it is handed:
\* value - count * repeat_penalty - (1 if count > 0 else 0) * presence_penalty.
apply_repeat_presence_penalty(probs, presence_penalty_, repeat_penalty_, context) ==
    LET p == IF probs.d % 10 = 0 THEN probs
             ELSE [n |-> [j \in DOMAIN probs.n |-> 10 * probs.n[j]], d |-> 10 * probs.d]
    IN  [n |-> [j \in DOMAIN p.n |->
                   LET count == Count(context, j - 1)
                   IN  p.n[j] - (count * repeat_penalty_
                                 + (IF count > 0 THEN 1 ELSE 0) * presence_penalty_)
                                * (p.d \div 10)],
         d |-> p.d]

\* f32::log(10.0) of the value n / d: NaN below zero, -inf at zero.
Log10Value(n, d) ==
    IF n < 0 THEN [kind |-> "nan", milli |-> 0]
    ELSE IF n = 0 THEN [kind |-> "neg_inf", milli |-> 0]
    ELSE [kind |-> "num", milli |-> Log10Milli(n, d)]

\* sort_by(|a, b| probs[*b].partial_cmp(&probs[*a])) of the first k entries of
\* a list of positions: stable, descending.
RECURSIVE SortDesc(_, _, _)
SortDesc(list, n, k) ==
    IF k = 0 THEN <<>> ELSE InsertDesc(SortDesc(list, n, k - 1), list[k], n)

\* Sampler::get_top_logprobs: the logprobs are those of the first top_n
\* positions of the re-sorted list, the tokens are the first top_n entries of
\* argsort_indices as it was handed in. A range longer than the list panics.
get_top_logprobs(probs, argsort_indices, top_n) ==
    LET argsort_indices_sorted == SortDesc(argsort_indices, probs.n, Len(argsort_indices))
    IN  IF top_n > Len(argsort_indices)
        THEN [panic |-> TRUE, list |-> <<>>]
        ELSE [panic |-> FALSE,
              list |-> [val \in 1 .. top_n |->
                          [token |-> argsort_indices[val] - 1,
                           logprob |-> Log10Value(probs.n[argsort_indices_sorted[val]],
                                                  probs.d)]]]

\* max_by(total_cmp) over the enumerated values: the position of the largest
\* value, the last one among equals.
ArgMax(n) ==
    CHOOSE j \in DOMAIN n :
        /\ \A k \in DOMAIN n : n[k] <= n[j]
        /\ \A k \in DOMAIN n : (k > j) => n[k] < n[j]

\* The first index whose accumulated weight exceeds the chosen weight, for the
\* generator output u (in tenths of the total weight).
WeightedPick(n, u) ==
    LET cumulative == [j \in DOMAIN n |-> SumSeq([i \in 1 .. j |-> n[i]])]
    IN  CHOOSE j \in DOMAIN n :
            /\ 10 * cumulative[j] > u * SumSeq(n)
            /\ \A k \in 1 .. j - 1 : 10 * cumulative[k] <= u * SumSeq(n)

\* A generator that never advances.
rng_stuck(r) ==
    r

\* StdRng::seed_from_u64, the output of the generator in a state and its step:
\* a generator of period four with the outputs 0.0, 0.3, 0.6 and 0.9.
seed_from_u64(seed) ==
    seed % 4

rng_output(r) ==
    3 * r

rng_next(r) ==
    (r + 1) % 4

\* What a call returns when it fails before a token is chosen.
Failed(why, penalized, handed) ==
    [err |-> TRUE, why |-> why, penalized |-> penalized, handed |-> handed,
     probs |-> handed, tokens |-> {}, token |-> 0,
     logprob |-> [kind |-> "none", milli |-> 0], top_logprobs |-> <<>>, drew |-> FALSE]

\* The Option<Vec<TopLogprob>> of a result and whether building it panicked.
TopLogprobs(probs, argsort_indices, top_n, return_logprobs) ==
    IF return_logprobs THEN get_top_logprobs(probs, argsort_indices, top_n)
    ELSE [panic |-> FALSE, list |-> <<>>]

\* Sampler::sample_argmax on the values it is handed.
sample_argmax(penalized, probs, top_n, return_logprobs) ==
    LET argsort_indices == [j \in 1 .. Len(probs.n) |-> j]
        next_token == ArgMax(probs.n) - 1
        top == TopLogprobs(probs, argsort_indices, top_n, return_logprobs)
    IN  IF top.panic
        THEN Failed("panic", penalized, probs)
        ELSE [err |-> FALSE, why |-> "", penalized |-> penalized, handed |-> probs,
              probs |-> probs, tokens |-> {next_token}, token |-> next_token,
              logprob |-> Log10Value(probs.n[next_token + 1], probs.d),
              top_logprobs |-> top.list, drew |-> FALSE]

\* Sampler::sample_topkp and sample_multinomial with the generator output u:
\* clamp, build the WeightedIndex, draw, then collect the top logprobs.
sample_draw(penalized, probs, top_k, top_p, top_n, return_logprobs, u) ==
    LET argsort_indices == ArgsortDesc(probs.n)
        r == sample_topkp(probs, top_k, top_p)
    IN  IF r.err
        THEN [Failed("weights", penalized, probs) EXCEPT !.probs = r.probs]
        ELSE LET next_token == WeightedPick(r.probs.n, u) - 1
                 top == TopLogprobs(r.probs, argsort_indices, top_n, return_logprobs)
             IN  IF top.panic
                 THEN [Failed("panic", penalized, probs) EXCEPT !.probs = r.probs,
                                                                !.drew = TRUE]
                 ELSE [err |-> FALSE, why |-> "", penalized |-> penalized,
                       handed |-> probs, probs |-> r.probs, tokens |-> r.tokens,
                       token |-> next_token,
                       logprob |-> Log10Value(r.probs.n[next_token + 1], r.probs.d),
                       top_logprobs |-> top.list, drew |-> TRUE]

\* A test of the repeat penalty alone.
repeat_penalty_is_none(s) ==
    s.repeat_penalty = <<>>

\* self.repeat_penalty.is_none() && self.presence_penalty.is_none()
penalties_are_none(s) ==
    s.repeat_penalty = <<>> /\ s.presence_penalty = <<>>

\* Sampler::sample(logits, penalty_ctxt, return_logprobs) of the sampler self,
\* whose generator yields u if a draw is made.
Sampler_sample(self, logits, penalty_ctxt, return_logprobs, u) ==
    LET after_temperature == TemperatureStep(self.temperature, logits)
        no_penalty == penalties_are_none(self)
    IN  IF ~no_penalty /\ penalty_ctxt = <<>>
        THEN Failed("context", after_temperature, after_temperature)
        ELSE LET penalized ==
                     IF no_penalty THEN after_temperature
                     ELSE apply_repeat_presence_penalty(after_temperature,
                              unwrap_or(self.presence_penalty, 0),
                              unwrap_or(self.repeat_penalty, 0), penalty_ctxt[1])
                 biased == apply_logit_bias(penalized, self.logits_bias)
             IN  IF biased.err
                 THEN Failed("bias", penalized, biased.probs)
                 ELSE IF self.temperature = <<>>
                      THEN sample_argmax(penalized, biased.probs, self.top_n_logprobs,
                                         return_logprobs)
                      ELSE sample_draw(penalized, biased.probs, self.topk, self.topp,
                                       self.top_n_logprobs, return_logprobs, u)

\* ------------------------------------------------ KV-cache block manager
\* The manager as the specification describes it (section 4.3): a free-list
\* of block ids, a table blocks[seq_id] of block handles and a refcount per
\* block. A sequence id without table has the empty table.
\* Block size B: the tokens one block holds.
BlockSize == 2

BlockIds ==
    0 .. NumBlocks - 1

SeqIds ==
    1 .. NumSeqIds

\* The slots of a block; logical position p of a sequence is slot p mod B of
\* the block at index p div B of its table.
Slots ==
    0 .. BlockSize - 1

\* The token counts an allocate call may ask for: none, one (decode), a
\* prompt, and one more than the whole pool holds.
NeededTokens ==
    {0, 1, BlockSize + 1, NumBlocks * BlockSize + 1}

\* The handles of a table, as a set.
Handles(table) ==
    {table[i] : i \in DOMAIN table}

\* Number of handles of block b in a table.
HandleCount(table, b) ==
    Cardinality({i \in DOMAIN table : table[i] = b})

\* Blocks a table lacks to hold that many tokens.
BlocksNeeded(table, tokens) ==
    LET want == (tokens + BlockSize - 1) \div BlockSize
    IN  IF want > Len(table) THEN want - Len(table) ELSE 0

\* fork without the increment of the refcounts.
increment_refcounts_skipped(rc, table) ==
    rc

\* Increment the refcount on every handle of the table.
increment_refcounts(rc, table) ==
    [b \in BlockIds |-> rc[b] + HandleCount(table, b)]

\* Decrement the refcount on every handle of the table.
decrement_refcounts(rc, table) ==
    [b \in BlockIds |-> rc[b] - HandleCount(table, b)]

\* The handles of the table whose refcount has reached zero, in table order
\* and once each.
Released(rc, table) ==
    LET first == {i \in DOMAIN table :
                    /\ rc[table[i]] = 0
                    /\ \A k \in 1 .. i - 1 : table[k] # table[i]}
        rank(i) == Cardinality({k \in first : k <= i})
    IN  [r \in 1 .. Cardinality(first) |->
            table[CHOOSE i \in first : rank(i) = r]]

\* The manager at start: every block free, no table.
BlockIdle ==
    /\ free_list = [i \in 1 .. NumBlocks |-> i - 1]
    /\ blocks = [s \in SeqIds |-> <<>>]
    /\ refcount = [b \in BlockIds |-> 0]
    /\ seq_tokens = [s \in SeqIds |-> 0]
    /\ bm_last = [op |-> "none", result |-> "none"]
    /\ kv = [b \in BlockIds |-> [slot \in Slots |-> 0]]
    /\ seq_written = [s \in SeqIds |-> 0]
    /\ forked_from = [s \in SeqIds |-> 0]

\* allocate(seq, needed_tokens): make the table long enough for the tokens,
\* appending fresh blocks (refcount 1) from the free-list; OutOfMemory, and
\* nothing changed, when the free-list cannot satisfy the request.
allocate(seq, needed_tokens) ==
    LET k == BlocksNeeded(blocks[seq], seq_tokens[seq] + needed_tokens)
        fresh == [i \in 1 .. k |-> free_list[i]]
    IN  IF k > Len(free_list)
        THEN /\ bm_last' = [op |-> "allocate", result |-> "OutOfMemory"]
             /\ UNCHANGED <<free_list, blocks, refcount, seq_tokens, kv, seq_written>>
        ELSE /\ blocks' = [blocks EXCEPT ![seq] = blocks[seq] \o fresh]
             /\ refcount' = [b \in BlockIds |->
                                IF b \in Handles(fresh) THEN 1 ELSE refcount[b]]
             /\ free_list' = [i \in 1 .. Len(free_list) - k |-> free_list[i + k]]
             /\ seq_tokens' = [seq_tokens EXCEPT ![seq] = seq_tokens[seq] + needed_tokens]
             /\ bm_last' = [op |-> "allocate", result |-> "Ok"]
             /\ UNCHANGED <<kv, seq_written>>

\* fork(parent_seq, child_seq): the child, a sequence that has no table yet,
\* gets a copy of the parent's table; the refcount of every block of it is
\* incremented.
fork(parent_seq, child_seq) ==
    /\ parent_seq # child_seq
    /\ blocks[child_seq] = <<>>
    /\ blocks' = [blocks EXCEPT ![child_seq] = blocks[parent_seq]]
    /\ refcount' = increment_refcounts(refcount, blocks[parent_seq])
    /\ seq_tokens' = [seq_tokens EXCEPT ![child_seq] = seq_tokens[parent_seq]]
    /\ seq_written' = [seq_written EXCEPT ![child_seq] = seq_written[parent_seq]]
    /\ bm_last' = [op |-> "fork", result |-> "Ok"]
    /\ UNCHANGED <<free_list, kv>>

\* free(seq): the refcount of every handle of the table is decremented, the
\* blocks that reach zero go back to the free-list and the table is gone.
free(seq) ==
    LET rc == decrement_refcounts(refcount, blocks[seq])
    IN  /\ refcount' = rc
        /\ free_list' = free_list \o Released(rc, blocks[seq])
        /\ blocks' = [blocks EXCEPT ![seq] = <<>>]
        /\ seq_tokens' = [seq_tokens EXCEPT ![seq] = 0]
        /\ seq_written' = [seq_written EXCEPT ![seq] = 0]
        /\ bm_last' = [op |-> "free", result |-> "Ok"]
        /\ UNCHANGED kv

\* The block and the slot of logical position p under a table.
SlotOf(table, p) ==
    [block |-> table[(p \div BlockSize) + 1], slot |-> p % BlockSize]

\* The slots of the table's last block that hold committed positions.
CommittedSlots(table, written) ==
    {slot \in Slots : (Len(table) - 1) * BlockSize + slot < written}

\* The token counts of one step: a decode step and a prompt (or chunk) that
\* crosses a block boundary.
NewTokens ==
    {1, BlockSize + 1}

\* write(seq, layer, new_tokens, new_k, new_v), for one layer: the slot
\* mapping of the new tokens follows the committed positions; if the last
\* block of the table is shared (refcount > 1) it is copied first: a fresh
\* block gets the committed slots, the old block's refcount is decremented
\* and the new handle is spliced into the table; then the new K/V (here the
\* writer's id) is scattered to the slot positions. The table has been made
\* long enough by allocate. OutOfMemory, and nothing changed, when the copy
\* finds no free block.
write(seq, new_tokens) ==
    LET table == blocks[seq]
        last == table[Len(table)]
        shared == refcount[last] > 1
        fresh == free_list[1]
        spliced == IF shared THEN [table EXCEPT ![Len(table)] = fresh] ELSE table
        copied == IF shared
                  THEN [kv EXCEPT ![fresh] =
                           [slot \in Slots |->
                               IF slot \in CommittedSlots(table, seq_written[seq])
                               THEN kv[last][slot] ELSE kv[fresh][slot]]]
                  ELSE kv
        positions == seq_written[seq] .. seq_written[seq] + new_tokens - 1
    IN  /\ seq_written[seq] + new_tokens <= seq_tokens[seq]
        /\ IF shared /\ free_list = <<>>
           THEN /\ bm_last' = [op |-> "write", result |-> "OutOfMemory"]
                /\ UNCHANGED <<free_list, blocks, refcount, seq_tokens, kv, seq_written>>
           ELSE /\ blocks' = [blocks EXCEPT ![seq] = spliced]
                /\ refcount' = IF shared
                               THEN [refcount EXCEPT ![last] = refcount[last] - 1,
                                                     ![fresh] = 1]
                               ELSE refcount
                /\ free_list' = IF shared
                                THEN [i \in 1 .. Len(free_list) - 1 |-> free_list[i + 1]]
                                ELSE free_list
                /\ kv' = [b \in BlockIds |-> [slot \in Slots |->
                              IF \E p \in positions :
                                    SlotOf(spliced, p) = [block |-> b, slot |-> slot]
                              THEN seq ELSE copied[b][slot]]]
                /\ seq_written' = [seq_written EXCEPT ![seq] = seq_written[seq] + new_tokens]
                /\ bm_last' = [op |-> "write", result |-> "Ok"]
                /\ UNCHANGED seq_tokens

\* ------------------------------------------- chat template: eos tokens
\* Longest eos_token_id list of a generation config.
MaxEosIds == 2

\* The tokens a tokenizer may know: id, the key of the vocabulary and the
\* text decode gives for the id. The special tokens decode to their key, the
\* word token to its text without the word-start mark.
TokenTable ==
    << [key |-> "</s>", text |-> "</s>"],
       [key |-> "<|im_end|>", text |-> "<|im_end|>"],
       [key |-> "<end_of_turn>", text |-> "<end_of_turn>"],
       [key |-> "<|eot_id|>", text |-> "<|eot_id|>"],
       [key |-> "_end", text |-> "end"] >>

TokenIds ==
    0 .. Len(TokenTable) - 1

SUPPORTED_ALTERNATE_EOS ==
    <<"<|im_end|>", "<end_of_turn>">>

\* A vocabulary is the set of the ids the tokenizer has.
\* tokenizer.get_vocab(true).contains_key(s)
contains_key(vocabulary, str) ==
    \E id \in vocabulary : TokenTable[id + 1].key = str

\* tokenizer.get_vocab(true).get(s): Some(id) or None.
get(vocabulary, str) ==
    IF contains_key(vocabulary, str)
    THEN <<CHOOSE id \in vocabulary : TokenTable[id + 1].key = str>>
    ELSE <<>>

\* tokenizer.decode(&[id], false): the text of the id, nothing for an id the
\* tokenizer does not have.
decode(vocabulary, id) ==
    IF id \in vocabulary THEN TokenTable[id + 1].text ELSE ""

\* Vec::contains
contains(list, x) ==
    \E i \in DOMAIN list : list[i] = x

\* ChatTemplate::eos_tok as a list: chat_template.eos_tok().map(|x| vec![x])
\* .unwrap_or_default()
eos_tok_list(template_eos) ==
    IF template_eos = <<>> THEN <<>> ELSE <<template_eos[1]>>

\* for alternate in SUPPORTED_ALTERNATE_EOS: every alternate the vocabulary
\* has is pushed, from the k-th on.
RECURSIVE push_alternates(_, _, _)
push_alternates(list, vocabulary, k) ==
    IF k > Len(SUPPORTED_ALTERNATE_EOS) THEN list
    ELSE LET alternate == SUPPORTED_ALTERNATE_EOS[k]
         IN  push_alternates(
                 IF contains_key(vocabulary, alternate)
                 THEN Append(list, alternate) ELSE list,
                 vocabulary, k + 1)

\* for id in ids: the decoded string is pushed unless the list has it, from
\* the k-th id on.
RECURSIVE push_decoded(_, _, _, _)
push_decoded(list, vocabulary, ids, k) ==
    IF k > Len(ids) THEN list
    ELSE LET str == decode(vocabulary, ids[k])
         IN  push_decoded(IF contains(list, str) THEN list ELSE Append(list, str),
                          vocabulary, ids, k + 1)

\* calculate_eos_tokens(chat_template, gen_conf, tokenizer): the ids of the
\* collected strings in order, or the panic of a string the vocabulary does
\* not have. (The bos strings it collects the same way are only logged.)
calculate_eos_tokens(template_eos, generation, vocabulary) ==
    LET with_alternates == push_alternates(eos_tok_list(template_eos), vocabulary, 1)
        eos_tok_ids == IF generation = <<>> THEN with_alternates
                       ELSE push_decoded(with_alternates, vocabulary, generation[1], 1)
    IN  IF \E i \in DOMAIN eos_tok_ids : get(vocabulary, eos_tok_ids[i]) = <<>>
        THEN [panic |-> TRUE, toks |-> <<>>, strings |-> eos_tok_ids]
        ELSE [panic |-> FALSE,
              toks |-> [i \in DOMAIN eos_tok_ids |-> get(vocabulary, eos_tok_ids[i])[1]],
              strings |-> eos_tok_ids]

\* The inputs: eos_token None, a key of the table or a string no tokenizer
\* has; eos_token_id a single id or a list (Either<u32, Vec<u32>>, a single
\* id being the list of one), ids beyond the table included.
EosTokenArgs ==
    {<<>>} \cup {<<TokenTable[i].key>> : i \in DOMAIN TokenTable} \cup {<<"<eos>">>}

IdLists ==
    UNION {[1 .. n -> 0 .. Len(TokenTable)] : n \in 0 .. MaxEosIds}

GenConfArgs ==
    {<<>>} \cup {<<ids>> : ids \in IdLists}

Vocabularies ==
    SUBSET TokenIds

\* ------------------------------------------------- chat template: tojson
\* A string is the sequence of its characters. A value is a string, a list
\* of strings, a map of one key, a boolean or none.
\* Longest string inside a value, and largest indent.
MaxStrLen == 2
MaxIndent == 2

\* The characters of the strings: a letter, the four characters tojson
\* replaces, and the two characters JSON escapes inside a string.
Chars ==
    {"a", "<", ">", "&", "'", "\"", "\\"}

Strings ==
    UNION {[1 .. n -> Chars] : n \in 0 .. MaxStrLen}

ShortStrings ==
    UNION {[1 .. n -> {"a", "<", "'", "\""}] : n \in 0 .. 1}

StrValue(str) ==
    [t |-> "str", s |-> str, items |-> <<>>]

ListValue(items) ==
    [t |-> "list", s |-> <<>>, items |-> items]

MapValue(key, str) ==
    [t |-> "map", s |-> <<>>, items |-> <<key, str>>]

Values ==
    {StrValue(str) : str \in Strings}
        \cup {ListValue(items) : items \in UNION {[1 .. n -> ShortStrings] : n \in 0 .. 2}}
        \cup {MapValue(key, str) : key \in ShortStrings, str \in ShortStrings}
        \cup {[t |-> "true", s |-> <<>>, items |-> <<>>],
              [t |-> "none", s |-> <<>>, items |-> <<>>]}

\* The concatenation of the first k strings of a list of strings.
RECURSIVE Concat(_, _)
Concat(parts, k) ==
    IF k = 0 THEN <<>> ELSE Concat(parts, k - 1) \o parts[k]

\* serde_json's string: quotes around it, the quote and the backslash escaped.
json_string(str) ==
    <<"\"">>
        \o Concat([i \in DOMAIN str |->
                      IF str[i] = "\"" THEN <<"\\", "\"">>
                      ELSE IF str[i] = "\\" THEN <<"\\", "\\">>
                      ELSE <<str[i]>>], Len(str))
        \o <<"\"">>

\* serde_json::to_string(&value): the compact form.
to_string(value) ==
    CASE value.t = "str" -> json_string(value.s)
      [] value.t = "list" ->
            <<"[">> \o Concat([i \in DOMAIN value.items |->
                                  (IF i > 1 THEN <<",">> ELSE <<>>)
                                      \o json_string(value.items[i])],
                              Len(value.items)) \o <<"]">>
      [] value.t = "map" ->
            <<"{">> \o json_string(value.items[1]) \o <<":">>
                \o json_string(value.items[2]) \o <<"}">>
      [] value.t = "true" -> <<"t", "r", "u", "e">>
      [] OTHER -> <<"n", "u", "l", "l">>

\* b" ".repeat(indent)
repeat(indent) ==
    [i \in 1 .. indent |-> " "]

\* The serializer with PrettyFormatter::with_indent: one element per line,
\* indented once; an empty list as []; a scalar as in the compact form.
to_string_pretty(value, indent) ==
    CASE value.t = "list" /\ value.items # <<>> ->
            <<"[">> \o Concat([i \in DOMAIN value.items |->
                                  (IF i > 1 THEN <<",">> ELSE <<>>) \o <<"\n">>
                                      \o repeat(indent) \o json_string(value.items[i])],
                              Len(value.items)) \o <<"\n", "]">>
      [] value.t = "map" ->
            <<"{", "\n">> \o repeat(indent) \o json_string(value.items[1])
                \o <<":", " ">> \o json_string(value.items[2]) \o <<"\n", "}">>
      [] OTHER -> to_string(value)

\* The match on a character without the arm of the apostrophe.
escape_char_without_apostrophe(c) ==
    CASE c = "<" -> <<"\\", "u", "0", "0", "3", "c">>
      [] c = ">" -> <<"\\", "u", "0", "0", "3", "e">>
      [] c = "&" -> <<"\\", "u", "0", "0", "2", "6">>
      [] OTHER -> <<c>>

\* match c { '<' => "\\u003c", '>' => "\\u003e", '&' => "\\u0026",
\*           '\'' => "\\u0027", _ => c }
escape_char(c) ==
    CASE c = "<" -> <<"\\", "u", "0", "0", "3", "c">>
      [] c = ">" -> <<"\\", "u", "0", "0", "3", "e">>
      [] c = "&" -> <<"\\", "u", "0", "0", "2", "6">>
      [] c = "'" -> <<"\\", "u", "0", "0", "2", "7">>
      [] OTHER -> <<c>>

\* tojson(value, kwargs): the serialization, pretty when kwargs has indent,
\* with every character passed through the match.
tojson(value, kwargs) ==
    LET serialized == IF kwargs # <<>> THEN to_string_pretty(value, kwargs[1])
                      ELSE to_string(value)
    IN  Concat([i \in DOMAIN serialized |-> escape_char(serialized[i])], Len(serialized))

IndentArgs ==
    {<<>>} \cup {<<n>> : n \in 0 .. MaxIndent}

\* No call of tojson is under observation.
TojsonIdle ==
    /\ tj_value = [t |-> "none", s |-> <<>>, items |-> <<>>]
    /\ tj_indent = <<>>
    /\ tj_pc = "idle"
    /\ tj_result = <<>>

\* No call of calculate_eos_tokens or tojson is under observation.
TemplateIdle ==
    /\ eos_token = <<>>
    /\ gen_conf = <<>>
    /\ vocab = {}
    /\ eos_pc = "idle"
    /\ eos_toks = [panic |-> FALSE, toks |-> <<>>, strings |-> <<>>]
    /\ TojsonIdle

\* --------------------------------------------------- mllama text model
\* A tensor is the expression that computes it: the operation and the tensors
\* it is applied to. Two tensors are equal when computed the same way.
Op(name, args) ==
    [op |-> name, args |-> args]

Tensor(name) ==
    Op(name, <<>>)

\* The input_ids and the cross_attn_states (vision features) of the calls.
InputIds ==
    {Tensor("ids_a"), Tensor("ids_b")}

CrossAttnStates ==
    {Tensor("image_a"), Tensor("image_b")}

\* Option<&Tensor>: None for a text-only call.
CrossAttnStatesArgs ==
    {<<>>} \cup {<<x>> : x \in CrossAttnStates}

\* The decoder layers MLlamaTextModel::new builds from num_hidden_layers and
\* cross_attention_layers.
ModelLayers ==
    UNION {[1 .. n -> {"SelfAttn", "CrossAttn"}] : n \in 1 .. MaxModelLayers}

\* Cache::update_kv_cache(kv_cache, k, v, false): the new k and v are
\* concatenated to what the layer holds, stored and returned.
update_cross_kv_cache(kv_cache, k, v) ==
    IF kv_cache = <<>> THEN [k |-> <<k>>, v |-> <<v>>]
    ELSE [k |-> Append(kv_cache[1].k, k), v |-> Append(kv_cache[1].v, v)]

\* A key normalisation applied to the projected cross_attn_states.
key_norm_input_projected(q, k) ==
    k

\* The tensor self.k_norm is applied to: k = self.k_norm.forward(&q)?
key_norm_input(q, k) ==
    q

\* MLlamaTextCrossAttention::forward: the outcome, the layer's cache after the
\* call and the output.
MLlamaTextCrossAttention_forward(hidden_states, cross_attn_states, kv_cache) ==
    LET q == Op("q_norm", <<Op("q_proj", <<hidden_states>>)>>)
    IN  IF cross_attn_states # <<>>
        THEN LET k_proj == Op("k_proj", <<cross_attn_states[1]>>)
                 k == Op("k_norm", <<key_norm_input(q, k_proj)>>)
                 v == Op("v_proj", <<cross_attn_states[1]>>)
                 stored == update_cross_kv_cache(kv_cache, k, v)
             IN  [err |-> FALSE, kv_cache |-> <<stored>>,
                  out |-> Op("o_proj", <<Op("sdpa",
                              <<q, Op("cat", stored.k), Op("cat", stored.v)>>)>>)]
        ELSE IF kv_cache # <<>>
             THEN [err |-> FALSE, kv_cache |-> kv_cache,
                   out |-> Op("o_proj", <<Op("sdpa",
                               <<q, Op("cat", kv_cache[1].k), Op("cat", kv_cache[1].v)>>)>>)]
             ELSE [err |-> TRUE, kv_cache |-> kv_cache, out |-> Tensor("none")]

\* MLlamaCrossAttentionDecoderLayer::forward: layer norm, attention, the gated
\* residual and the gated mlp.
MLlamaCrossAttentionDecoderLayer_forward(hidden_states, cross_attn_states, kv_cache) ==
    LET a == MLlamaTextCrossAttention_forward(
                 Op("input_layernorm", <<hidden_states>>), cross_attn_states, kv_cache)
    IN  [err |-> a.err, kv_cache |-> a.kv_cache,
         out |-> Op("cross_attn_layer", <<hidden_states, a.out>>)]

\* Cache::lock on a lock in the given state: the guard is obtained when the
\* lock is free; the caller waits for it otherwise.
lock(state) ==
    IF state = "free" THEN "guard" ELSE "waits"

\* A model whose caches are empty and whose forward is not running.
MllamaIdle ==
    /\ ml_self_cache = [layer \in DOMAIN ml_layers |-> 0]
    /\ ml_cross_cache = [layer \in DOMAIN ml_layers |-> <<>>]
    /\ ml_self_lock = "free"
    /\ ml_cross_lock = "free"
    /\ ml_pc = "idle"
    /\ ml_i = 0
    /\ ml_input_ids = Tensor("none")
    /\ ml_cross_attn_states = <<>>
    /\ ml_hidden_states = Tensor("none")
    /\ ml_result = "none"
    /\ ml_calls = 0

\* ----------------------------------------------------- paged attention
\* The slots of the paged cache and the K/V rows a call may bring: a row is
\* named by a number, 0 is a slot never written.
SlotIds ==
    0 .. NumSlots - 1

Rows ==
    {1, 2}

\* The rows of the tokens of a call, and the slot mappings: one slot per
\* token, no slot twice.
TokenRows ==
    UNION {[1 .. n -> Rows] : n \in 1 .. MaxNewTokens}

SlotMappings(n) ==
    {m \in [1 .. n -> SlotIds] : \A a \in 1 .. n : \A b \in 1 .. n : a # b => m[a] # m[b]}

\* The prefill attention of forward: computed from query, key, value and the
\* mask.
prefill_attention(query, key, value) ==
    [kind |-> "prefill", query |-> query, k |-> key, v |-> value]

\* reshape_and_cache: the row of every token is stored at its slot.
reshape_and_cache(rows, cache, slot_mapping) ==
    [slot \in SlotIds |->
        IF \E t \in DOMAIN slot_mapping : slot_mapping[t] = slot
        THEN rows[CHOOSE t \in DOMAIN slot_mapping : slot_mapping[t] = slot]
        ELSE cache[slot]]

\* paged_attention: the attention of the query over the two cache tensors.
paged_attention(query, k_cache, v_cache) ==
    [kind |-> "paged", query |-> query, k |-> k_cache, v |-> v_cache]

\* What forward does after the cache step, reading the cache in every case.
after_cache_read(att, kv_cache) ==
    IF kv_cache THEN "paged_attention" ELSE "unreachable"

\* What forward does after the cache step: the prefill result is returned if
\* there is one; otherwise the cache is needed.
after_cache(att, kv_cache) ==
    IF att # <<>> THEN "return_att"
    ELSE IF kv_cache THEN "paged_attention" ELSE "unreachable"

NoAttention ==
    [kind |-> "none", query |-> <<>>, k |-> <<>>, v |-> <<>>]

\* No call of PagedAttention::forward is running.
PagedCallIdle ==
    /\ pa_query = <<>>
    /\ pa_key = <<>>
    /\ pa_value = <<>>
    /\ pa_mask = FALSE
    /\ pa_kv_cache = FALSE
    /\ pa_slot_mapping = <<>>
    /\ pa_pc = "idle"
    /\ pa_att = <<>>
    /\ pa_entry = [k |-> <<>>, v |-> <<>>]
    /\ pa_ops = <<>>

\* A cache nothing was written to, no call running.
PagedIdle ==
    /\ pa_k_cache = [slot \in SlotIds |-> 0]
    /\ pa_v_cache = [slot \in SlotIds |-> 0]
    /\ pa_result = [outcome |-> "none", att |-> NoAttention]
    /\ PagedCallIdle

\* No model of the two attention layers is under observation.
AttentionIdle ==
    /\ ml_layers = <<>>
    /\ MllamaIdle
    /\ PagedIdle

\* ------------------------------------------------- the sampler on its own
\* Logits vectors ln(w) of length len whose softmax is w / 10.
LogitsOfLen(len) ==
    {w \in [1 .. len -> 1 .. 10] : SumSeq(w) = 10}

LogitsInputs ==
    UNION {LogitsOfLen(len) : len \in 1 .. MaxLen}

\* Logits vectors in tenths for a sampler without temperature, and the vector
\* 1.0 / 5.0 / 3.0 / 2.0.
RawLogitValues ==
    {-10, 0, 15, 20, 50}

RawLogitsInputs ==
    UNION {[1 .. len -> RawLogitValues] : len \in 1 .. MaxLen} \cup {<<10, 50, 30, 20>>}

\* The penalty contexts handed to a call: None, or Some list of token ids.
ContextLists ==
    UNION {[1 .. len -> 0 .. 1] : len \in 0 .. 2}

PenaltyContexts ==
    {<<>>} \cup {<<c>> : c \in ContextLists}

\* The temperatures handed to Sampler::new: None, 0.0, 5e-8 and 1.0.
SomeOne ==
    <<100000000>>

TemperatureArgs ==
    {<<>>, <<0>>, <<5>>, SomeOne}

\* Penalty values: None, Some(0.0), Some(0.5).
PenaltyArgs ==
    {<<>>, <<0>>, <<5>>}

\* Logit-bias maps, as the list of entries in the order the map yields them;
\* token id 5 is outside every logits vector.
BiasArgs ==
    {<<>>, << <<0, 5>> >>, << <<5, 5>> >>,
     << <<0, 5>>, <<5, 5>> >>, << <<5, 5>>, <<0, 5>> >>,
     << <<0, 5>>, <<1, -5>> >>, << <<1, -5>>, <<0, 5>> >>}

Seeds ==
    0 .. 3

\* The Sampler as one value.
self ==
    [temperature |-> temperature, top_n_logprobs |-> top_n_logprobs,
     repeat_penalty |-> repeat_penalty, presence_penalty |-> presence_penalty,
     logits_bias |-> logits_bias, topk |-> topk, topp |-> topp]

NoResult ==
    [err |-> FALSE, why |-> "", penalized |-> [n |-> <<>>, d |-> 1],
     handed |-> [n |-> <<>>, d |-> 1], probs |-> [n |-> <<>>, d |-> 1],
     tokens |-> {}, token |-> 0, logprob |-> [kind |-> "none", milli |-> 0],
     top_logprobs |-> <<>>, drew |-> FALSE]

\* -------------------------------------- speculative pipeline: the data
Vocab ==
    0 .. NumTokens - 1

\* tokenizer().get_vocab(true): the map from token string to id.
VocabA ==
    [s \in {"a", "b"} |-> IF s = "a" THEN 0 ELSE 1]

\* The same strings with other ids.
VocabB ==
    [s \in {"a", "b"} |-> IF s = "a" THEN 1 ELSE 0]

\* One more string.
VocabC ==
    [s \in {"a", "b", "c"} |-> IF s = "a" THEN 0 ELSE IF s = "b" THEN 1 ELSE 2]

\* A model is given by the logits ln(w) it emits after token 0; after token c
\* it emits the same vector rotated by c places.
DistWeights ==
    {1, 2, 8, 9}

ModelDists ==
    {w \in [1 .. NumTokens -> DistWeights] : SumSeq(w) = 10}

\* forward_inputs: the logits of a model for the position after token ctx.
forward_inputs(model, ctx) ==
    [j \in 1 .. NumTokens |-> model[((j - 1 + ctx) % NumTokens) + 1]]

\* metadata.eos_tok of the target.
EosTok ==
    {1}

Last(s) ==
    s[Len(s)]

\* Sequence::add_tmp_tok: push a token onto the temporary tail.
add_tmp_tok(toks, t) ==
    Append(toks, t)

\* Sequence::remove_tmp_tok(n): drop the n temporary tokens.
remove_tmp_tok(toks, n) ==
    SubSeq(toks, 1, Len(toks) - n)

\* Sequence::remove_last_token: pop the last token (returned to the caller).
remove_last_token(toks) ==
    SubSeq(toks, 1, Len(toks) - 1)

\* Sequence::add_token: push a committed token.
add_token(toks, t) ==
    Append(toks, t)

\* The layers of a model's Cache.
Layers ==
    1 .. NumLayers

\* Cache::new, and the cache DefaultCacheManager.set_none_cache leaves: every
\* layer None.
NoneCache ==
    [layer \in Layers |-> <<>>]

\* A draft reset that leaves the cache as it is.
set_none_cache_kept(cache) ==
    cache

\* DefaultCacheManager.set_none_cache: every layer of the cache becomes None.
set_none_cache(cache) ==
    NoneCache

\* cache[0].as_ref().map(|(k, _)| k.dims()[2]).unwrap_or(0)
initial_cache_len(cache) ==
    IF cache[1] = <<>> THEN 0 ELSE cache[1][1]

\* The loop over cache.iter_mut().flatten(): every populated layer is replaced
\* by its first len positions.
narrow(cache, len) ==
    [layer \in Layers |-> IF cache[layer] = <<>> THEN <<>> ELSE <<len>>]

\* What a forward pass does to the model's cache: on every layer the K/V of the
\* input tokens is appended to what the layer holds.
update_kv_cache(cache, toks) ==
    [layer \in Layers |->
        IF cache[layer] = <<>> THEN <<Len(toks)>> ELSE <<cache[layer][1] + Len(toks)>>]

\* calculate_inputs for pass i of the draft loop: a prompt pass (all tokens of
\* the sequence) when i == 0, the last token otherwise.
draft_inputs(toks, i) ==
    IF i = 0 THEN toks ELSE <<Last(toks)>>

\* The cache instructions the engine hands to step: a prompt step starts from
\* reset caches, a completion step from the sequence's copy (In) or from the
\* caches as the last step left them (Nonthing); the copy is written back (Out).
PreOps(state) ==
    IF state = "RunningPrompt" THEN {"Reset"} ELSE {"In", "Nonthing"}

PostOps ==
    {"Out"}

\* sample_sequence: Sampler::sample of the sequence's sampler on the logits, as
\* the set of Logprobs {token, logprob} one call may return.
sample_sequence(logits) ==
    LET r == sample(logits, logits_bias, topk, topp)
    IN  {[token |-> t, logprob |-> Log10Milli(r.probs.n[t + 1], r.probs.d)] :
            t \in r.tokens}

\* sample_target_sequence_speculative: the lists of samples it may return for
\* the first k positions of the target logits, each sample kept with the
\* logits it was drawn from.
RECURSIVE sample_target_sequence_speculative(_, _)
sample_target_sequence_speculative(all_logits, k) ==
    IF k = 0 THEN {<<>>}
    ELSE {Append(before, [sample |-> sample_, distribution |-> all_logits[k]]) :
            before \in sample_target_sequence_speculative(all_logits, k - 1),
            sample_ \in sample_sequence(all_logits[k])}

Abs(x) ==
    IF x < 0 THEN -x ELSE x

\* (target logprob / draft logprob).clamp(0.0, 1.0), as num / den. A division
\* by the logprob 0.0 gives an infinity, which clamps to 0 or to 1.
acceptance_prob(lt, ld) ==
    IF ld = 0
    THEN IF lt > 0 THEN [num |-> 1, den |-> 1] ELSE [num |-> 0, den |-> 1]
    ELSE IF lt = 0 \/ (lt < 0 /\ ld > 0) \/ (lt > 0 /\ ld < 0)
         THEN [num |-> 0, den |-> 1]
         ELSE IF Abs(lt) >= Abs(ld)
              THEN [num |-> 1, den |-> 1]
              ELSE [num |-> Abs(lt), den |-> Abs(ld)]

\* rng.gen_bool(p): the values it may return.
gen_bool(p) ==
    {b \in BOOLEAN : (b => p.num > 0) /\ (~b => p.num < p.den)}

RECURSIVE ProductUpTo(_, _)
ProductUpTo(s, k) ==
    IF k = 0 THEN 1 ELSE s[k] * ProductUpTo(s, k - 1)

Product(s) ==
    ProductUpTo(s, Len(s))

\* (target_sample.distribution - draft_sample.distribution).relu(): on logits
\* ln(t) and ln(d) the entry is ln(max(1, t / d)); every entry is multiplied by
\* the product of the draft weights (a constant added to every logit, which the
\* softmax of the sampler cancels) to stay in the integers.
corrected_distribution(target, draft) ==
    [j \in DOMAIN target |->
        (IF target[j] > draft[j] THEN target[j] ELSE draft[j])
        * Product([k \in DOMAIN draft |-> IF k = j THEN 1 ELSE draft[k]])]

\* The sampler of the sequence of the speculative pipeline.
SeqSamplerInit ==
    /\ topk = -1
    /\ topp = 10
    /\ logits_bias \in {<<>>, << <<0, 5>> >>}
    /\ temperature_arg = SomeOne
    /\ temperature = new_temperature(temperature_arg)
    /\ top_n_logprobs = 1
    /\ repeat_penalty = <<>>
    /\ presence_penalty = <<>>
    /\ rng = seed_from_u64(0)

\* No call of the sampler on its own is under observation.
CallIdle ==
    /\ smp_pc = "idle"
    /\ smp_logits = <<>>
    /\ smp_result = NoResult
    /\ smp_ctxt = <<>>
    /\ smp_return_logprobs = FALSE

\* No pipeline: the variables of the speculative pipeline at rest.
PipelineIdle ==
    /\ pipeline = "none"
    /\ target_vocab = <<>>
    /\ draft_vocab = <<>>
    /\ target_model = <<>>
    /\ draft_model = <<>>
    /\ gamma = 0
    /\ seq_toks = <<>>
    /\ seq_prefill = <<>>
    /\ seq_state = "none"
    /\ seq_rx = <<>>
    /\ draft_cache = NoneCache
    /\ target_cache = NoneCache
    /\ seq_cache = NoneCache

StepIdle ==
    /\ pc = "idle"
    /\ is_prompt = FALSE
    /\ disable_eos_stop = FALSE
    /\ loop_i = 0
    /\ tok_l = 0
    /\ tgt_logits = <<>>
    /\ draft_samples = <<>>
    /\ samples = <<>>
    /\ accepted_tokens = <<>>
    /\ entry_toks = <<>>
    /\ accepted_how = <<>>
    /\ examined = 0
    /\ committed = 0
    /\ stop_at = 0
    /\ post_op = "Nonthing"
    /\ step_ops = <<>>
    /\ step_result = "none"

\* Samplers that exercise top-k and top-p: temperature 1.0, nothing else set.
TopKPConfig ==
    /\ temperature_arg = SomeOne
    /\ topk \in -1 .. MaxLen + 1
    /\ topp \in 0 .. 11
    /\ repeat_penalty = <<>>
    /\ presence_penalty = <<>>
    /\ logits_bias = <<>>
    /\ top_n_logprobs = 1

\* Samplers that exercise the penalties, with and without temperature.
PenaltyConfig ==
    /\ temperature_arg \in {<<>>, SomeOne}
    /\ topk = -1
    /\ topp = 10
    /\ repeat_penalty \in PenaltyArgs
    /\ presence_penalty \in PenaltyArgs
    /\ logits_bias = <<>>
    /\ top_n_logprobs = 1

\* Samplers that exercise the logit bias.
BiasConfig ==
    /\ temperature_arg \in {<<>>, SomeOne}
    /\ topk = -1
    /\ topp = 10
    /\ repeat_penalty = <<>>
    /\ presence_penalty = <<>>
    /\ logits_bias \in BiasArgs
    /\ top_n_logprobs = 1

\* Samplers that exercise the temperature of Sampler::new and the top logprobs.
LogprobConfig ==
    /\ temperature_arg \in TemperatureArgs
    /\ topk \in {-1, 2}
    /\ topp = 10
    /\ repeat_penalty = <<>>
    /\ presence_penalty = <<>>
    /\ logits_bias = <<>>
    /\ top_n_logprobs \in 1 .. 2

\* A sampler as Sampler::new leaves it. A sampler that never draws is built
\* with seed 0.
SamplerInit ==
    /\ TopKPConfig \/ PenaltyConfig \/ BiasConfig \/ LogprobConfig
    /\ temperature = new_temperature(temperature_arg)
    /\ \E seed \in Seeds :
          /\ temperature = <<>> => seed = 0
          /\ rng = seed_from_u64(seed)
    /\ CallIdle
    /\ AttentionIdle
    /\ PipelineIdle
    /\ StepIdle
    /\ BlockIdle
    /\ TemplateIdle

\* The arguments of the calls under observation: logits in the reading of the
\* sampler, a penalty context (None when no penalty is configured) and
\* return_logprobs.
CallLogits ==
    IF temperature = <<>> THEN RawLogitsInputs ELSE LogitsInputs

CallContexts ==
    IF repeat_penalty = <<>> /\ presence_penalty = <<>>
    THEN {<<>>} ELSE PenaltyContexts

\* One call of Sampler::sample(logits, penalty_ctxt, return_logprobs); the
\* generator advances when the call draws.
SampleCall ==
    /\ smp_pc = "idle"
    /\ smp_pc' = "returned"
    /\ \E logits \in CallLogits, penalty_ctxt \in CallContexts,
          return_logprobs \in BOOLEAN :
        LET r == Sampler_sample(self, logits, penalty_ctxt, return_logprobs, rng_output(rng))
        IN  /\ smp_logits' = logits
            /\ smp_ctxt' = penalty_ctxt
            /\ smp_return_logprobs' = return_logprobs
            /\ smp_result' = r
            /\ rng' = IF r.drew THEN rng_next(rng) ELSE rng
    /\ UNCHANGED <<template_vars, block_vars, attention_vars, sampler_vars, spec_vars>>

\* The caller has consumed the result; the sampler is ready for the next call.
SampleReturn ==
    /\ smp_pc = "returned"
    /\ smp_pc' = "idle"
    /\ smp_logits' = <<>>
    /\ smp_result' = NoResult
    /\ smp_ctxt' = <<>>
    /\ smp_return_logprobs' = FALSE
    /\ UNCHANGED rng
    /\ UNCHANGED <<template_vars, block_vars, attention_vars, sampler_vars, spec_vars>>

\* --------------------------------------- speculative pipeline: the steps
\* Both models are loaded, a request with a one-token prompt is queued and the
\* pipeline is not constructed yet.
Init ==
    /\ SeqSamplerInit
    /\ CallIdle
    /\ AttentionIdle
    /\ BlockIdle
    /\ TemplateIdle
    /\ pipeline = "none"
    /\ target_vocab \in {VocabA}
    /\ draft_vocab \in {VocabA, VocabB, VocabC}
    /\ target_model \in ModelDists
    /\ draft_model \in ModelDists
    /\ gamma = 0
    /\ seq_toks = <<0>>
    /\ seq_prefill = <<>>
    /\ seq_state = "RunningPrompt"
    /\ seq_rx = <<>>
    /\ draft_cache = NoneCache
    /\ target_cache = NoneCache
    /\ seq_cache = NoneCache
    /\ StepIdle

\* SpeculativePipeline::new, with its vocabulary check left out.
new_unchecked ==
    /\ pipeline = "none"
    /\ \E g \in 1 .. MaxGamma :
        /\ pipeline' = "ok"
        /\ gamma' = g
    /\ UNCHANGED <<target_vocab, draft_vocab, target_model, draft_model>>
    /\ UNCHANGED <<template_vars, block_vars, attention_vars, sampler_vars, call_vars, seq_vars, step_vars, obs_vars>>
    /\ UNCHANGED <<cache_vars, run_vars>>

\* SpeculativePipeline::new
new ==
    /\ pipeline = "none"
    /\ \E g \in 1 .. MaxGamma :
        IF target_vocab # draft_vocab
        THEN /\ pipeline' = "err"
             /\ gamma' = gamma
        ELSE /\ pipeline' = "ok"
             /\ gamma' = g
    /\ UNCHANGED <<target_vocab, draft_vocab, target_model, draft_model>>
    /\ UNCHANGED <<template_vars, block_vars, attention_vars, sampler_vars, call_vars, seq_vars, step_vars, obs_vars>>
    /\ UNCHANGED <<cache_vars, run_vars>>

\* step, entry: pre_op, the one-sequence assertion, the empty draft_samples.
\* A sequence whose step returned an error is aborted: no further step.
StepBegin ==
    /\ pipeline = "ok"
    /\ pc = "idle"
    /\ seq_state \in {"RunningPrompt", "RunningCompletion"}
    /\ Len(seq_toks) < MaxSeqLen
    /\ pc' = "draft"
    /\ is_prompt' = (seq_state = "RunningPrompt")
    /\ disable_eos_stop' \in BOOLEAN
    /\ loop_i' = 0
    /\ draft_samples' = <<>>
    /\ entry_toks' = seq_toks
    /\ step_result # "Err"
    /\ \E pre_op \in PreOps(seq_state) :
        /\ target_cache' = CASE pre_op = "In" -> seq_cache
                              [] pre_op = "Nonthing" -> target_cache
                              [] pre_op = "Reset" -> set_none_cache(target_cache)
        /\ draft_cache' = IF pre_op = "Reset" THEN set_none_cache(draft_cache)
                          ELSE draft_cache
    /\ post_op' \in PostOps
    /\ step_ops' = <<>>
    /\ step_result' = "running"
    /\ UNCHANGED seq_cache
    /\ UNCHANGED <<tok_l, tgt_logits, samples, accepted_tokens>>
    /\ UNCHANGED <<accepted_how, examined, committed, stop_at>>
    /\ UNCHANGED <<template_vars, block_vars, attention_vars, sampler_vars, call_vars, pipeline_vars, seq_vars>>

\* The name under which pass i of the draft loop is observed.
draft_forward_op(i) ==
    IF i = 0 THEN "draft_prompt_forward" ELSE "draft_forward"

\* The `?` of step: the error is returned at once, the locals are dropped and
\* nothing else is touched.
ReturnErr ==
    /\ pc' = "idle"
    /\ step_result' = "Err"
    /\ is_prompt' = FALSE
    /\ disable_eos_stop' = FALSE
    /\ loop_i' = 0
    /\ tok_l' = 0
    /\ tgt_logits' = <<>>
    /\ draft_samples' = <<>>
    /\ samples' = <<>>
    /\ accepted_tokens' = <<>>
    /\ post_op' = "Nonthing"
    /\ UNCHANGED <<obs_vars, seq_vars, target_cache, seq_cache>>
    /\ UNCHANGED <<template_vars, block_vars, attention_vars, sampler_vars, call_vars, pipeline_vars>>

\* step, the draft's forward_inputs(inputs)? fails in an iteration of the loop.
DraftForwardErr ==
    /\ pc = "draft"
    /\ loop_i < gamma
    /\ step_ops' = Append(step_ops, "draft_forward_err")
    /\ UNCHANGED draft_cache
    /\ ReturnErr

\* step, sample_sequence(...).await? fails after the draft's forward pass.
DraftSampleErr ==
    /\ pc = "draft"
    /\ loop_i < gamma
    /\ draft_cache' = update_kv_cache(draft_cache, draft_inputs(seq_toks, loop_i))
    /\ step_ops' = step_ops \o <<draft_forward_op(loop_i), "draft_sample_err">>
    /\ ReturnErr

\* step, one iteration of the draft loop: forward, sample, add_tmp_tok, push.
DraftIter ==
    /\ pc = "draft"
    /\ loop_i < gamma
    /\ LET draft_logits == forward_inputs(draft_model, Last(seq_toks))
       IN  \E sample_ \in sample_sequence(draft_logits) :
               /\ seq_toks' = add_tmp_tok(seq_toks, sample_.token)
               /\ draft_samples' = Append(draft_samples,
                      [sample |-> sample_, distribution |-> draft_logits])
    /\ loop_i' = loop_i + 1
    /\ draft_cache' = update_kv_cache(draft_cache, draft_inputs(seq_toks, loop_i))
    /\ step_ops' = step_ops \o <<draft_forward_op(loop_i), "draft_sample">>
    /\ UNCHANGED <<target_cache, seq_cache, post_op, step_result>>
    /\ UNCHANGED <<pc, is_prompt, disable_eos_stop, tok_l, tgt_logits, samples,
                   accepted_tokens>>
    /\ UNCHANGED <<seq_prefill, seq_state, seq_rx>>
    /\ UNCHANGED <<template_vars, block_vars, attention_vars, sampler_vars, call_vars, pipeline_vars, obs_vars>>

\* The tokens handed to the target: the committed tokens (a prompt step) or the
\* last committed token, then every draft token but the last.
draft_prefill_tokens(toks) ==
    (IF is_prompt THEN toks ELSE <<Last(toks)>>)
    \o [k \in 1 .. Len(draft_samples) - 1 |-> draft_samples[k].sample.token]

\* As remove_tmp_tok(gamma), removing one token less.
remove_tmp_tok_short(toks, n) ==
    SubSeq(toks, 1, Len(toks) - (n - 1))

\* The token list after the draft loop: seq.remove_tmp_tok(self.gamma).
after_draft_loop(toks, n) ==
    remove_tmp_tok(toks, n)

\* step, from the end of the draft loop to the target forward: remove_tmp_tok,
\* draft cache reset, set_prefill_toks, remove_last_token and, in a non-prompt
\* step, the narrowing of the target cache by one position.
DraftDone ==
    /\ pc = "draft"
    /\ loop_i >= gamma
    /\ LET toks == after_draft_loop(seq_toks, gamma)
       IN  /\ seq_prefill' = <<draft_prefill_tokens(toks)>>
           /\ tok_l' = Last(toks)
           /\ seq_toks' = remove_last_token(toks)
    /\ pc' = "target"
    /\ draft_cache' = set_none_cache(draft_cache)
    /\ target_cache' = IF ~is_prompt
                       THEN narrow(target_cache, initial_cache_len(target_cache) - 1)
                       ELSE target_cache
    /\ step_ops' = step_ops \o <<"draft_reset">>
                            \o (IF ~is_prompt THEN <<"narrow">> ELSE <<>>)
    /\ UNCHANGED <<seq_cache, post_op, step_result>>
    /\ UNCHANGED <<is_prompt, disable_eos_stop, loop_i, tgt_logits, draft_samples,
                   samples, accepted_tokens>>
    /\ UNCHANGED <<seq_state, seq_rx>>
    /\ UNCHANGED <<template_vars, block_vars, attention_vars, sampler_vars, call_vars, pipeline_vars, obs_vars>>

\* step, the target's forward_inputs(inputs)? fails.
TargetForwardErr ==
    /\ pc = "target"
    /\ step_ops' = Append(step_ops, "target_forward_err")
    /\ UNCHANGED draft_cache
    /\ ReturnErr

\* step, the target forward on the prefill tokens (its last gamma positions),
\* then reset_prefill_toks and add_token(l, c, &s).
TargetForward ==
    /\ pc = "target"
    /\ LET inputs == seq_prefill[1]
       IN  tgt_logits' = [j \in 1 .. gamma |->
               forward_inputs(target_model, inputs[Len(inputs) - gamma + j])]
    /\ seq_prefill' = <<>>
    /\ seq_toks' = add_token(seq_toks, tok_l)
    /\ pc' = "reject"
    /\ target_cache' = update_kv_cache(target_cache, seq_prefill[1])
    /\ step_ops' = Append(step_ops, "target_forward")
    /\ UNCHANGED <<draft_cache, seq_cache, post_op, step_result>>
    /\ UNCHANGED <<is_prompt, disable_eos_stop, loop_i, tok_l, draft_samples, samples,
                   accepted_tokens>>
    /\ UNCHANGED <<seq_state, seq_rx>>
    /\ UNCHANGED <<template_vars, block_vars, attention_vars, sampler_vars, call_vars, pipeline_vars, obs_vars>>

\* step, sample_target_sequence_speculative: one sample of the target per draft
\* position, each kept with the logits it was drawn from.
SampleTarget ==
    /\ pc = "reject"
    /\ samples' \in sample_target_sequence_speculative(tgt_logits, gamma)
    /\ accepted_tokens' = <<>>
    /\ accepted_how' = <<>>
    /\ examined' = 0
    /\ loop_i' = 0
    /\ pc' = "examine"
    /\ step_ops' = Append(step_ops, "rejection")
    /\ UNCHANGED <<cache_vars, post_op, step_result>>
    /\ UNCHANGED <<is_prompt, disable_eos_stop, tok_l, tgt_logits, draft_samples>>
    /\ UNCHANGED <<entry_toks, committed, stop_at>>
    /\ UNCHANGED <<template_vars, block_vars, attention_vars, sampler_vars, call_vars, pipeline_vars, seq_vars>>

\* A rejection loop that stops one draft position early.
zip_len_short ==
    Len(draft_samples) - 1

\* zip(samples, draft_samples): the number of pairs the rejection loop visits.
zip_len ==
    IF Len(samples) < Len(draft_samples) THEN Len(samples) ELSE Len(draft_samples)

\* A mismatch branch that goes on with the next pair.
after_mismatch_continue ==
    "examine"

\* The `break` that ends the mismatch branch.
after_mismatch ==
    "break"

\* The pair of samples under examination.
target_sample ==
    samples[loop_i + 1]

draft_sample ==
    draft_samples[loop_i + 1]

Accept(token, how) ==
    /\ accepted_tokens' = Append(accepted_tokens, token)
    /\ accepted_how' = Append(accepted_how, how)
    /\ examined' = examined + 1
    /\ loop_i' = loop_i + 1

ExamineFrame ==
    /\ UNCHANGED <<cache_vars, run_vars>>
    /\ UNCHANGED <<is_prompt, disable_eos_stop, tok_l, tgt_logits, draft_samples, samples>>
    /\ UNCHANGED <<entry_toks, committed, stop_at>>
    /\ UNCHANGED <<template_vars, block_vars, attention_vars, sampler_vars, call_vars, pipeline_vars, seq_vars>>

\* Rejection loop, same token and draft logprob <= target logprob: the target
\* model agrees.
ExamineAgree ==
    /\ pc = "examine"
    /\ loop_i < zip_len
    /\ draft_sample.sample.token = target_sample.sample.token
    /\ draft_sample.sample.logprob <= target_sample.sample.logprob
    /\ Accept(target_sample.sample.token, "draft")
    /\ pc' = "examine"
    /\ ExamineFrame

\* Rejection loop, same token, lower target logprob, gen_bool returned true.
ExamineAccept ==
    /\ pc = "examine"
    /\ loop_i < zip_len
    /\ draft_sample.sample.token = target_sample.sample.token
    /\ ~(draft_sample.sample.logprob <= target_sample.sample.logprob)
    /\ TRUE \in gen_bool(acceptance_prob(target_sample.sample.logprob,
                                         draft_sample.sample.logprob))
    /\ Accept(target_sample.sample.token, "draft")
    /\ pc' = "examine"
    /\ ExamineFrame

\* The tokens the resample after a rejection may return: sample_sequence on the
\* corrected distribution.
resample_tokens(target, draft) ==
    sample(corrected_distribution(target, draft), logits_bias, topk, topp).tokens

\* Rejection loop, same token, lower target logprob, gen_bool returned false:
\* resample from the corrected distribution and leave the loop.
ExamineReject ==
    /\ pc = "examine"
    /\ loop_i < zip_len
    /\ draft_sample.sample.token = target_sample.sample.token
    /\ ~(draft_sample.sample.logprob <= target_sample.sample.logprob)
    /\ FALSE \in gen_bool(acceptance_prob(target_sample.sample.logprob,
                                          draft_sample.sample.logprob))
    /\ \E t \in resample_tokens(target_sample.distribution, draft_sample.distribution) :
           Accept(t, "resample")
    /\ pc' = "break"
    /\ ExamineFrame

\* Rejection loop, the two samples are different tokens: take the target's.
ExamineMismatch ==
    /\ pc = "examine"
    /\ loop_i < zip_len
    /\ draft_sample.sample.token # target_sample.sample.token
    /\ Accept(target_sample.sample.token, "target")
    /\ pc' = after_mismatch
    /\ ExamineFrame

\* The rejection loop is left (zip exhausted, or break); the two sample lists
\* it consumed are dropped.
ExamineEnd ==
    /\ \/ pc = "break"
       \/ pc = "examine" /\ loop_i >= zip_len
    /\ pc' = "commit"
    /\ loop_i' = 0
    /\ committed' = 0
    /\ stop_at' = 0
    /\ samples' = <<>>
    /\ draft_samples' = <<>>
    /\ tgt_logits' = <<>>
    /\ UNCHANGED <<cache_vars, run_vars>>
    /\ UNCHANGED <<is_prompt, disable_eos_stop, tok_l, accepted_tokens>>
    /\ UNCHANGED <<entry_toks, accepted_how, examined>>
    /\ UNCHANGED <<template_vars, block_vars, attention_vars, sampler_vars, call_vars, pipeline_vars, seq_vars>>

\* Sequence::is_done as used by finish_and_add_tokens_to_seq!: the stop
\* condition on the token being added (an end-of-stream token, unless disabled).
is_done(token) ==
    ~disable_eos_stop /\ token \in EosTok

\* Commit loop, one accepted token: finish_and_add_tokens_to_seq! (stop check,
\* add_token, state Done on a stop), then the recognizer is fed the token. The
\* loop has no exit before the list is exhausted.
Commit ==
    /\ pc = "commit"
    /\ committed < Len(accepted_tokens)
    /\ LET accepted == accepted_tokens[committed + 1]
       IN  /\ seq_toks' = add_token(seq_toks, accepted)
           /\ seq_state' = IF is_done(accepted) THEN "Done" ELSE seq_state
           /\ seq_rx' = Append(seq_rx, accepted)
           /\ stop_at' = IF stop_at = 0 /\ is_done(accepted)
                         THEN committed + 1 ELSE stop_at
    /\ committed' = committed + 1
    /\ step_ops' = IF committed = 0 THEN Append(step_ops, "commit") ELSE step_ops
    /\ UNCHANGED <<cache_vars, post_op, step_result>>
    /\ UNCHANGED seq_prefill
    /\ UNCHANGED step_vars
    /\ UNCHANGED <<entry_toks, accepted_how, examined>>
    /\ UNCHANGED <<template_vars, block_vars, attention_vars, sampler_vars, call_vars, pipeline_vars>>

\* step, post_op and return; the engine moves a prompt sequence to completion.
PostOp ==
    /\ pc = "commit"
    /\ committed >= Len(accepted_tokens)
    /\ seq_state' = IF seq_state = "RunningPrompt" THEN "RunningCompletion"
                    ELSE seq_state
    /\ pc' = "idle"
    /\ is_prompt' = FALSE
    /\ disable_eos_stop' = FALSE
    /\ loop_i' = 0
    /\ tok_l' = 0
    /\ accepted_tokens' = <<>>
    /\ entry_toks' = <<>>
    /\ accepted_how' = <<>>
    /\ examined' = 0
    /\ committed' = 0
    /\ stop_at' = 0
    /\ seq_cache' = IF post_op = "Out" THEN target_cache ELSE seq_cache
    /\ target_cache' = IF post_op = "Reset" THEN set_none_cache(target_cache)
                       ELSE target_cache
    /\ draft_cache' = IF post_op = "Reset" THEN set_none_cache(draft_cache)
                      ELSE draft_cache
    /\ step_result' = "Ok"
    /\ post_op' = "Nonthing"
    /\ step_ops' = <<>>
    /\ UNCHANGED <<tgt_logits, draft_samples, samples>>
    /\ UNCHANGED <<seq_toks, seq_prefill, seq_rx>>
    /\ UNCHANGED <<template_vars, block_vars, attention_vars, sampler_vars, call_vars, pipeline_vars>>

Next ==
    \/ new
    \/ StepBegin
    \/ DraftIter
    \/ DraftForwardErr
    \/ DraftSampleErr
    \/ DraftDone
    \/ TargetForward
    \/ TargetForwardErr
    \/ SampleTarget
    \/ ExamineAgree
    \/ ExamineAccept
    \/ ExamineReject
    \/ ExamineMismatch
    \/ ExamineEnd
    \/ Commit
    \/ PostOp

vars == <<sampler_vars, call_vars, pipeline_vars, seq_vars, step_vars, obs_vars,
          cache_vars, run_vars, block_vars, template_vars, attention_vars>>

Spec ==
    Init /\ [][Next]_vars

SamplerNext ==
    \/ SampleCall
    \/ SampleReturn

SamplerSpec ==
    SamplerInit /\ [][SamplerNext]_vars

\* -------------------------------------------- the block manager on its own
\* The manager at start; no sampler call and no pipeline are under observation.
BlockInit ==
    /\ BlockIdle
    /\ TemplateIdle
    /\ SeqSamplerInit
    /\ logits_bias = <<>>
    /\ CallIdle
    /\ AttentionIdle
    /\ PipelineIdle
    /\ StepIdle

Allocate ==
    /\ \E seq \in SeqIds, needed_tokens \in NeededTokens : allocate(seq, needed_tokens)
    /\ UNCHANGED forked_from
    /\ UNCHANGED <<template_vars, attention_vars, sampler_vars, call_vars, spec_vars>>

Fork ==
    /\ \E parent_seq \in SeqIds, child_seq \in SeqIds : fork(parent_seq, child_seq)
    /\ UNCHANGED forked_from
    /\ UNCHANGED <<template_vars, attention_vars, sampler_vars, call_vars, spec_vars>>

Free ==
    /\ \E seq \in SeqIds : free(seq)
    /\ UNCHANGED forked_from
    /\ UNCHANGED <<template_vars, attention_vars, sampler_vars, call_vars, spec_vars>>

BlockNext ==
    \/ Allocate
    \/ Fork
    \/ Free

BlockSpec ==
    BlockInit /\ [][BlockNext]_vars

\* ------------------------------------- the block manager under the scheduler
\* The tokens a sequence has blocks for and has not written yet.
Pending(seq) ==
    seq_tokens[seq] - seq_written[seq]

\* The scheduler's Allocate: blocks for the tokens a selected sequence will
\* produce this step (one for decode, more for a prompt).
StepAllocate ==
    /\ \E seq \in SeqIds, needed_tokens \in NewTokens :
          /\ Pending(seq) = 0
          /\ allocate(seq, needed_tokens)
    /\ UNCHANGED forked_from
    /\ UNCHANGED <<template_vars, attention_vars, sampler_vars, call_vars, spec_vars>>

\* The forward pass of the step hands the K/V of the step's tokens to write.
StepWrite ==
    /\ \E seq \in SeqIds :
          /\ Pending(seq) > 0
          /\ write(seq, Pending(seq))
    /\ UNCHANGED forked_from
    /\ UNCHANGED <<template_vars, attention_vars, sampler_vars, call_vars, spec_vars>>

\* A sequence is forked between steps: the parent has written the tokens it
\* has blocks for, which are the prefix the child shares.
StepFork ==
    /\ \E parent_seq \in SeqIds, child_seq \in SeqIds :
          /\ Pending(parent_seq) = 0
          /\ seq_written[parent_seq] > 0
          /\ fork(parent_seq, child_seq)
          /\ forked_from' = [forked_from EXCEPT ![child_seq] = parent_seq]
    /\ UNCHANGED <<template_vars, attention_vars, sampler_vars, call_vars, spec_vars>>

\* A finished sequence is freed; it is nobody's parent or child any more.
StepFree ==
    /\ \E seq \in SeqIds :
          /\ blocks[seq] # <<>>
          /\ free(seq)
          /\ forked_from' = [s \in SeqIds |->
                                IF s = seq \/ forked_from[s] = seq
                                THEN 0 ELSE forked_from[s]]
    /\ UNCHANGED <<template_vars, attention_vars, sampler_vars, call_vars, spec_vars>>

CacheNext ==
    \/ StepAllocate
    \/ StepFork
    \/ StepFree
    \/ StepWrite

CacheSpec ==
    BlockInit /\ [][CacheNext]_vars

\* ----------------------------------------------- eos tokens on their own
\* A template, a generation config and a tokenizer are loaded.
EosInit ==
    /\ eos_token \in EosTokenArgs
    /\ gen_conf \in GenConfArgs
    /\ vocab \in Vocabularies
    /\ eos_pc = "idle"
    /\ eos_toks = [panic |-> FALSE, toks |-> <<>>, strings |-> <<>>]
    /\ TojsonIdle
    /\ BlockIdle
    /\ SeqSamplerInit
    /\ logits_bias = <<>>
    /\ CallIdle
    /\ AttentionIdle
    /\ PipelineIdle
    /\ StepIdle

CalculateEos ==
    /\ eos_pc = "idle"
    /\ eos_pc' = "done"
    /\ eos_toks' = calculate_eos_tokens(eos_token, gen_conf, vocab)
    /\ UNCHANGED <<eos_token, gen_conf, vocab>>
    /\ UNCHANGED <<tojson_vars, block_vars, attention_vars, sampler_vars, call_vars, spec_vars>>

EosNext ==
    CalculateEos

EosSpec ==
    EosInit /\ [][EosNext]_vars

\* ------------------------------------------------------ tojson on its own
\* A template is about to apply the filter to a value.
TojsonInit ==
    /\ tj_value \in Values
    /\ tj_indent \in IndentArgs
    /\ tj_pc = "idle"
    /\ tj_result = <<>>
    /\ eos_token = <<>>
    /\ gen_conf = <<>>
    /\ vocab = {}
    /\ eos_pc = "idle"
    /\ eos_toks = [panic |-> FALSE, toks |-> <<>>, strings |-> <<>>]
    /\ BlockIdle
    /\ SeqSamplerInit
    /\ logits_bias = <<>>
    /\ CallIdle
    /\ AttentionIdle
    /\ PipelineIdle
    /\ StepIdle

ApplyTojson ==
    /\ tj_pc = "idle"
    /\ tj_pc' = "done"
    /\ tj_result' = tojson(tj_value, tj_indent)
    /\ UNCHANGED <<tj_value, tj_indent>>
    /\ UNCHANGED <<eos_vars, block_vars, attention_vars, sampler_vars, call_vars, spec_vars>>

TojsonNext ==
    ApplyTojson

TojsonSpec ==
    TojsonInit /\ [][TojsonNext]_vars

\* ------------------------------------------- the mllama text model on its own
\* A model as MLlamaTextModel::new leaves it: its layers, two empty caches.
MllamaInit ==
    /\ ml_layers \in ModelLayers
    /\ MllamaIdle
    /\ PagedIdle
    /\ TemplateIdle
    /\ BlockIdle
    /\ SeqSamplerInit
    /\ logits_bias = <<>>
    /\ smp_pc = "idle"
    /\ smp_logits = <<>>
    /\ smp_result = NoResult
    /\ smp_ctxt = <<>>
    /\ smp_return_logprobs = FALSE
    /\ PipelineIdle
    /\ StepIdle

MllamaFrame ==
    /\ UNCHANGED <<ml_layers, paged_vars>>
    /\ UNCHANGED <<template_vars, block_vars, sampler_vars, call_vars, spec_vars>>

\* forward, entry: the embedding, the guards of the two cache locks, the mask.
MlForwardBegin ==
    /\ ml_pc = "idle"
    /\ ml_calls < MaxForwardCalls
    /\ lock(ml_self_lock) = "guard"
    /\ lock(ml_cross_lock) = "guard"
    /\ \E input_ids \in InputIds, cross_attn_states \in CrossAttnStatesArgs :
        /\ ml_input_ids' = input_ids
        /\ ml_cross_attn_states' = cross_attn_states
        /\ ml_hidden_states' = Op("embed_tokens", <<input_ids>>)
    /\ ml_self_lock' = "held"
    /\ ml_cross_lock' = "held"
    /\ ml_i' = 1
    /\ ml_pc' = "layers"
    /\ ml_result' = "none"
    /\ ml_calls' = ml_calls + 1
    /\ UNCHANGED <<ml_self_cache, ml_cross_cache>>
    /\ MllamaFrame

\* forward, a self-attention layer: the layer's forward on its self cache.
MlSelfAttn ==
    /\ ml_pc = "layers"
    /\ ml_i <= Len(ml_layers)
    /\ ml_layers[ml_i] = "SelfAttn"
    /\ ml_hidden_states' = Op("self_attn_layer", <<ml_hidden_states>>)
    /\ ml_self_cache' = [ml_self_cache EXCEPT ![ml_i] = @ + 1]
    /\ ml_i' = ml_i + 1
    /\ UNCHANGED <<ml_cross_cache, ml_self_lock, ml_cross_lock, ml_pc, ml_input_ids,
                   ml_cross_attn_states, ml_result, ml_calls>>
    /\ MllamaFrame

\* The layer's forward on cross_cache[i]; an error is returned at once and the
\* two guards are dropped.
CrossAttnLayer ==
    LET r == MLlamaCrossAttentionDecoderLayer_forward(ml_hidden_states,
                 ml_cross_attn_states, ml_cross_cache[ml_i])
    IN  IF r.err
        THEN /\ ml_result' = "err"
             /\ ml_pc' = "idle"
             /\ ml_i' = 0
             /\ ml_self_lock' = "free"
             /\ ml_cross_lock' = "free"
             /\ UNCHANGED <<ml_cross_cache, ml_hidden_states>>
        ELSE /\ ml_cross_cache' = [ml_cross_cache EXCEPT ![ml_i] = r.kv_cache]
             /\ ml_hidden_states' = r.out
             /\ ml_i' = ml_i + 1
             /\ UNCHANGED <<ml_pc, ml_result, ml_self_lock, ml_cross_lock>>

\* forward, a cross-attention layer of a call with cross_attn_states: the
\* first operand of the && is false and the layer runs.
MlCrossAttn ==
    /\ ml_pc = "layers"
    /\ ml_i <= Len(ml_layers)
    /\ ml_layers[ml_i] = "CrossAttn"
    /\ ml_cross_attn_states # <<>>
    /\ CrossAttnLayer
    /\ UNCHANGED <<ml_self_cache, ml_input_ids, ml_cross_attn_states, ml_calls>>
    /\ MllamaFrame

\* forward, a cross-attention layer of a text-only call: the second operand
\* self.cross_attn_cache.lock()[0].is_none() takes the lock of the cross cache;
\* with the guard the layer is skipped when layer 0 holds nothing and runs on
\* the cached K/V otherwise.
MlCrossAttnTextOnly ==
    /\ ml_pc = "layers"
    /\ ml_i <= Len(ml_layers)
    /\ ml_layers[ml_i] = "CrossAttn"
    /\ ml_cross_attn_states = <<>>
    /\ IF lock(ml_cross_lock) = "waits"
       THEN /\ ml_pc' = "waits"
            /\ UNCHANGED <<ml_cross_cache, ml_hidden_states, ml_i, ml_result,
                           ml_self_lock, ml_cross_lock>>
       ELSE IF ml_cross_cache[1] = <<>>
            THEN /\ ml_i' = ml_i + 1
                 /\ UNCHANGED <<ml_cross_cache, ml_hidden_states, ml_pc, ml_result,
                                ml_self_lock, ml_cross_lock>>
            ELSE CrossAttnLayer
    /\ UNCHANGED <<ml_self_cache, ml_input_ids, ml_cross_attn_states, ml_calls>>
    /\ MllamaFrame

\* forward, after the last layer: norm, lm_head, extract_logits; the guards
\* are dropped on return.
MlForwardEnd ==
    /\ ml_pc = "layers"
    /\ ml_i > Len(ml_layers)
    /\ ml_hidden_states' = Op("lm_head", <<Op("norm", <<ml_hidden_states>>)>>)
    /\ ml_result' = "logits"
    /\ ml_pc' = "idle"
    /\ ml_i' = 0
    /\ ml_self_lock' = "free"
    /\ ml_cross_lock' = "free"
    /\ UNCHANGED <<ml_self_cache, ml_cross_cache, ml_input_ids, ml_cross_attn_states,
                   ml_calls>>
    /\ MllamaFrame

MllamaNext ==
    \/ MlForwardBegin
    \/ MlSelfAttn
    \/ MlCrossAttn
    \/ MlCrossAttnTextOnly
    \/ MlForwardEnd

MllamaSpec ==
    MllamaInit /\ [][MllamaNext]_vars

\* --------------------------------------------- paged attention on its own
\* A layer with an empty paged cache.
PagedInit ==
    /\ PagedIdle
    /\ ml_layers = <<>>
    /\ MllamaIdle
    /\ TemplateIdle
    /\ BlockIdle
    /\ SeqSamplerInit
    /\ logits_bias = <<>>
    /\ smp_pc = "idle"
    /\ smp_logits = <<>>
    /\ smp_result = NoResult
    /\ smp_ctxt = <<>>
    /\ smp_return_logprobs = FALSE
    /\ PipelineIdle
    /\ StepIdle

PagedFrame ==
    /\ UNCHANGED mllama_vars
    /\ UNCHANGED <<template_vars, block_vars, sampler_vars, call_vars, spec_vars>>

\* forward, from entry to the reshapes: the slot mapping, and att when an
\* attention mask is given.
PaForwardBegin ==
    /\ pa_pc = "idle"
    /\ \E rows \in TokenRows, attention_mask \in BOOLEAN, kv_cache \in BOOLEAN :
        \E slot_mapping \in SlotMappings(Len(rows)) :
            LET value == [t \in DOMAIN rows |-> rows[t] + 10]
            IN  /\ pa_query' = rows
                /\ pa_key' = rows
                /\ pa_value' = value
                /\ pa_mask' = attention_mask
                /\ pa_kv_cache' = kv_cache
                /\ pa_slot_mapping' = slot_mapping
                /\ pa_att' = IF attention_mask
                             THEN <<prefill_attention(rows, rows, value)>> ELSE <<>>
    /\ pa_pc' = "cache"
    /\ pa_entry' = [k |-> pa_k_cache, v |-> pa_v_cache]
    /\ pa_ops' = <<>>
    /\ pa_result' = [outcome |-> "none", att |-> NoAttention]
    /\ UNCHANGED <<pa_k_cache, pa_v_cache>>
    /\ PagedFrame

\* forward, `if let Some(..) = &mut kv_cache { reshape_and_cache(..)? }`.
PaCache ==
    /\ pa_pc = "cache"
    /\ IF pa_kv_cache
       THEN /\ pa_k_cache' = reshape_and_cache(pa_key, pa_k_cache, pa_slot_mapping)
            /\ pa_v_cache' = reshape_and_cache(pa_value, pa_v_cache, pa_slot_mapping)
            /\ pa_ops' = Append(pa_ops, "reshape_and_cache")
       ELSE UNCHANGED <<pa_k_cache, pa_v_cache, pa_ops>>
    /\ pa_pc' = after_cache(pa_att, pa_kv_cache)
    /\ UNCHANGED <<pa_query, pa_key, pa_value, pa_mask, pa_kv_cache, pa_slot_mapping,
                   pa_att, pa_result, pa_entry>>
    /\ PagedFrame

\* forward, reshape_and_cache(..)? fails: the error is returned.
PaCacheErr ==
    /\ pa_pc = "cache"
    /\ pa_kv_cache
    /\ pa_pc' = "done"
    /\ pa_result' = [outcome |-> "Err", att |-> NoAttention]
    /\ pa_ops' = Append(pa_ops, "reshape_and_cache_err")
    /\ UNCHANGED <<pa_k_cache, pa_v_cache, pa_query, pa_key, pa_value, pa_mask,
                   pa_kv_cache, pa_slot_mapping, pa_att, pa_entry>>
    /\ PagedFrame

\* forward, `if let Some(att) = att { return Ok(att); }`.
PaReturnAtt ==
    /\ pa_pc = "return_att"
    /\ pa_pc' = "done"
    /\ pa_result' = [outcome |-> "Ok", att |-> pa_att[1]]
    /\ UNCHANGED <<pa_k_cache, pa_v_cache, pa_query, pa_key, pa_value, pa_mask,
                   pa_kv_cache, pa_slot_mapping, pa_att, pa_entry, pa_ops>>
    /\ PagedFrame

\* forward, `let Some(..) = &mut kv_cache else { unreachable!() }`: no mask
\* and no cache.
PaUnreachable ==
    /\ pa_pc = "unreachable"
    /\ pa_pc' = "done"
    /\ pa_result' = [outcome |-> "panic", att |-> NoAttention]
    /\ UNCHANGED <<pa_k_cache, pa_v_cache, pa_query, pa_key, pa_value, pa_mask,
                   pa_kv_cache, pa_slot_mapping, pa_att, pa_entry, pa_ops>>
    /\ PagedFrame

\* forward, the decode path: paged_attention over the cache tensors.
PaPagedAttention ==
    /\ pa_pc = "paged_attention"
    /\ pa_pc' = "done"
    /\ pa_result' = [outcome |-> "Ok",
                     att |-> paged_attention(pa_query, pa_k_cache, pa_v_cache)]
    /\ pa_ops' = Append(pa_ops, "paged_attention")
    /\ UNCHANGED <<pa_k_cache, pa_v_cache, pa_query, pa_key, pa_value, pa_mask,
                   pa_kv_cache, pa_slot_mapping, pa_att, pa_entry>>
    /\ PagedFrame

\* The caller has consumed the result; the layer is ready for the next call.
PaReturn ==
    /\ pa_pc = "done"
    /\ pa_pc' = "idle"
    /\ pa_query' = <<>>
    /\ pa_key' = <<>>
    /\ pa_value' = <<>>
    /\ pa_mask' = FALSE
    /\ pa_kv_cache' = FALSE
    /\ pa_slot_mapping' = <<>>
    /\ pa_att' = <<>>
    /\ pa_entry' = [k |-> <<>>, v |-> <<>>]
    /\ pa_ops' = <<>>
    /\ pa_result' = [outcome |-> "none", att |-> NoAttention]
    /\ UNCHANGED <<pa_k_cache, pa_v_cache>>
    /\ PagedFrame

PagedNext ==
    \/ PaForwardBegin
    \/ PaCache
    \/ PaCacheErr
    \/ PaReturnAtt
    \/ PaUnreachable
    \/ PaPagedAttention
    \/ PaReturn

PagedSpec ==
    PagedInit /\ [][PagedNext]_vars

\* -------------------------------------------- speculative pipeline claims
\* The rejection loop is examining the pair at loop_i and both samples are the
\* same token.
ExaminingSameToken ==
    /\ pc = "examine"
    /\ loop_i < zip_len
    /\ draft_sample.sample.token = target_sample.sample.token

\* p(t) * 10 and q(t) * 10 of the drafted token of the pair under examination.
TargetProbOfDraft ==
    Softmax(target_sample.distribution).n[draft_sample.sample.token + 1]

DraftProbOfDraft ==
    Softmax(draft_sample.distribution).n[draft_sample.sample.token + 1]

\* C1: a drafted token with p(t) >= q(t) is accepted; with p(t) < q(t) it is
\* accepted with probability exactly p(t) / q(t) < 1, so that it can be rejected
\* (stated for a sampler without logit bias).
C1_AcceptanceIsProbRatio ==
    (ExaminingSameToken /\ logits_bias = <<>>) =>
        LET a == acceptance_prob(target_sample.sample.logprob,
                                 draft_sample.sample.logprob)
        IN  IF TargetProbOfDraft >= DraftProbOfDraft
            THEN draft_sample.sample.logprob <= target_sample.sample.logprob
            ELSE /\ a.num * DraftProbOfDraft = a.den * TargetProbOfDraft
                 /\ FALSE \in gen_bool(a)

\* max(0, p - q) on the probabilities w / sum(w) of the two logits vectors, as
\* unnormalized weights.
corrected_distribution_of_probs(target, draft) ==
    LET tp == Softmax(target)
        dp == Softmax(draft)
    IN  [j \in DOMAIN target |->
            IF tp.n[j] * dp.d > dp.n[j] * tp.d
            THEN tp.n[j] * dp.d - dp.n[j] * tp.d ELSE 0]

\* A token was just rejected and replaced: the pair examined last.
JustResampled ==
    /\ pc = "break"
    /\ accepted_how # <<>>
    /\ Last(accepted_how) = "resample"

\* C2: the replacement after a rejection is a token of the support of
\* max(0, p - q): a token x with p(x) <= q(x) is never the replacement.
C2_ResampleInSupport ==
    JustResampled =>
        corrected_distribution_of_probs(samples[loop_i].distribution,
                                        draft_samples[loop_i].distribution)
            [Last(accepted_tokens) + 1] > 0

\* The rejection loop has ended without a rejection or a mismatch.
AllDraftsAccepted ==
    /\ pc = "commit"
    /\ \A k \in DOMAIN accepted_how : accepted_how[k] = "draft"

C4_AcceptedShape ==
    pc \in {"examine", "break", "commit"} =>
        /\ pc # "examine" => Len(accepted_tokens) >= 1
        /\ Len(accepted_how) = Len(accepted_tokens)
        /\ examined = Len(accepted_tokens)
        /\ \A k \in DOMAIN accepted_how :
             /\ k < Len(accepted_how) => accepted_how[k] = "draft"
             /\ accepted_how[k] # "draft" => (k = Len(accepted_how) /\ pc # "examine")
             /\ (pc # "commit" /\ accepted_how[k] = "draft") =>
                    accepted_tokens[k] = draft_samples[k].sample.token
             /\ (pc # "commit" /\ accepted_how[k] = "target") =>
                    /\ accepted_tokens[k] = samples[k].sample.token
                    /\ accepted_tokens[k] # draft_samples[k].sample.token

\* One draft accepted, then a mismatch at the second position of two.
C4_Witness ==
    /\ pc = "break"
    /\ gamma = 2
    /\ accepted_how = <<"draft", "target">>

\* Exact rationals [num, den] for the probabilities of a step's outcomes.
RECURSIVE GCD(_, _)
GCD(a, b) ==
    IF b = 0 THEN a ELSE GCD(b, a % b)

Rat(n, d) ==
    LET g == GCD(n, d)
    IN  IF n = 0 THEN [num |-> 0, den |-> 1] ELSE [num |-> n \div g, den |-> d \div g]

RatAdd(a, b) ==
    Rat(a.num * b.den + b.num * a.den, a.den * b.den)

RatMul(a, b) ==
    Rat(a.num * b.num, a.den * b.den)

RECURSIVE RatSum(_, _)
RatSum(f, k) ==
    IF k < 0 THEN Rat(0, 1) ELSE RatAdd(f[k], RatSum(f, k - 1))

\* The probability that one draw of the sequence's sampler on logits returns x.
DrawMass(logits, x) ==
    LET r == sample(logits, logits_bias, topk, topp)
    IN  Rat(r.probs.n[x + 1], SumSeq(r.probs.n))

\* The logprob the sampler reports for token x drawn on logits.
DrawLogprob(logits, x) ==
    LET r == sample(logits, logits_bias, topk, topp)
    IN  Log10Milli(r.probs.n[x + 1], r.probs.d)

\* The probability that the first accepted token is x when the draft drew t
\* on the logits q and the target drew s on the logits p, following the
\* branches of the rejection loop.
FirstAcceptedMass(x, t, s, q, p) ==
    LET ld == DrawLogprob(q, t)
        lt == DrawLogprob(p, s)
        a  == acceptance_prob(lt, ld)
    IN  IF s # t THEN Rat(IF s = x THEN 1 ELSE 0, 1)
        ELSE IF ld <= lt THEN Rat(IF t = x THEN 1 ELSE 0, 1)
        ELSE RatAdd(RatMul(Rat(a.num, a.den), Rat(IF t = x THEN 1 ELSE 0, 1)),
                    RatMul(Rat(a.den - a.num, a.den),
                           DrawMass(corrected_distribution(p, q), x)))

\* The marginal probability that the first token a step commits is x, over
\* the draws of the draft token, of the target token and of the rejection loop.
FirstCommittedMass(x, q, p) ==
    RatSum([t \in Vocab |->
              RatMul(DrawMass(q, t),
                     RatSum([s \in Vocab |->
                               RatMul(DrawMass(p, s), FirstAcceptedMass(x, t, s, q, p))],
                            NumTokens - 1))],
           NumTokens - 1)

\* C5: the first token a step commits is distributed as the target's own
\* sampling distribution at that position, whatever the draft distribution.
C5_FirstTokenFollowsTarget ==
    pc = "reject" =>
        \A x \in Vocab :
            FirstCommittedMass(x, draft_samples[1].distribution, tgt_logits[1])
                = DrawMass(tgt_logits[1], x)

\* C6: once a stop condition has fired on an accepted token, no later accepted
\* token of the step is appended to the sequence or fed to the recognizer.
C6_TruncatedAtStop ==
    (pc = "commit" /\ stop_at > 0) =>
        /\ committed <= stop_at
        /\ Len(seq_toks) <= Len(entry_toks) + stop_at

\* C7: when rejection sampling begins the committed token list is the list at
\* step entry and no prefill override is set.
C7_TokensRestored ==
    pc = "reject" =>
        /\ seq_toks = entry_toks
        /\ seq_prefill = <<>>

\* A non-prompt step with two drafts at the point where rejection sampling begins.
C7_Witness ==
    /\ pc = "reject"
    /\ ~is_prompt
    /\ gamma = 2
    /\ Len(draft_samples) = 2
    /\ Len(entry_toks) >= 2

\* C8: new fails exactly when the two vocabularies differ, and a step runs only
\* on a pipeline whose vocabularies are identical.
C8_VocabChecked ==
    /\ pipeline = "ok" => target_vocab = draft_vocab
    /\ pipeline = "err" => target_vocab # draft_vocab
    /\ pc # "idle" => (pipeline = "ok" /\ target_vocab = draft_vocab)

\* new has refused two vocabularies with the same strings and other ids.
C8_Witness ==
    /\ pipeline = "err"
    /\ target_vocab = VocabA
    /\ draft_vocab = VocabB

\* ------------------------------------------------------ sampler claims
\* The call under observation returned a token.
Returned ==
    smp_pc = "returned" /\ ~smp_result.err

\* No penalty and no logit bias is configured.
PlainSampler ==
    repeat_penalty = <<>> /\ presence_penalty = <<>> /\ logits_bias = <<>>

\* The call returned a token, drawn from the softmax of the logits as it is.
ReturnedSampling ==
    Returned /\ temperature # <<>> /\ PlainSampler

\* Positions whose weight handed to the draw is non-zero.
Support(n) ==
    {j \in DOMAIN n : n[j] # 0}

\* The descending-probability order: the permutation of the positions with
\* non-increasing value, equal values in ascending position.
DescOrder(n) ==
    CHOOSE o \in [DOMAIN n -> DOMAIN n] :
        /\ \A a, b \in DOMAIN n : a # b => o[a] # o[b]
        /\ \A a, b \in DOMAIN n :
              a < b => \/ n[o[a]] > n[o[b]]
                       \/ n[o[a]] = n[o[b]] /\ o[a] < o[b]

\* Accumulated mass of the first j positions of order o.
Mass(n, o, j) ==
    SumSeq([i \in 1 .. j |-> n[o[i]]])

\* The positions the claim says keep their weight.
KeptSet(n, d, k, p) ==
    LET o == DescOrder(n)
        L == Len(n)
        firstk == IF k > 0 THEN {o[j] : j \in {i \in 1 .. L : i <= k}} ELSE DOMAIN n
        m == CHOOSE j \in 1 .. L :
                 /\ 10 * Mass(n, o, j) >= p * d
                 /\ \A i \in 1 .. j - 1 : 10 * Mass(n, o, i) < p * d
        nucleus == IF 0 < p /\ p < 10 THEN {o[j] : j \in 1 .. m} ELSE DOMAIN n
    IN  firstk \cap nucleus

\* C9: in sampling mode the tokens that keep a non-zero weight are the first
\* top_k positions of the descending order (all when top_k <= 0), cut - only
\* when 0 < top_p < 1 - to the shortest prefix whose mass is >= top_p; the kept
\* weights are unchanged and the returned token is one of them (for the
\* probabilities of the softmax, no penalty or bias being configured).
C9_TopKTopPSupport ==
    ReturnedSampling =>
        LET sm == Softmax(smp_logits)
            kept == KeptSet(sm.n, sm.d, topk, topp)
        IN  /\ Support(smp_result.probs.n) = kept
            /\ \A j \in kept : smp_result.probs.n[j] = sm.n[j]
            /\ smp_result.probs.d = sm.d
            /\ smp_result.token + 1 \in kept

\* Both cuts bite on probabilities 0.2 / 0.5 / 0.3: top_k = 2 zeroes token 0
\* and top_p = 0.5 zeroes token 2, which top_k kept; token 1 is returned.
C9_Witness ==
    /\ ReturnedSampling
    /\ smp_logits = <<2, 5, 3>>
    /\ topk = 2
    /\ topp = 5
    /\ smp_result.probs.n = <<0, 5, 0>>
    /\ smp_result.token = 1

\* The scenario of C10: probabilities 0.5 / 0.3 / 0.2, top-k disabled, top_p = 0.6.
C10_Scenario ==
    /\ ReturnedSampling
    /\ smp_logits = <<5, 3, 2>>
    /\ topk <= 0
    /\ topp = 6

\* C10 as stated: only token 0 keeps a non-zero weight and token 0 is returned.
C10_OnlyToken0 ==
    C10_Scenario =>
        /\ Support(smp_result.probs.n) = {1}
        /\ smp_result.token = 0

\* C10 amended: tokens 0 and 1 keep their weights 0.5 and 0.3 (the mass 0.5 of
\* token 0 alone is below 0.6, so token 1 is the one that reaches the
\* threshold and is kept), token 2 is zeroed, and the returned token is 0 or 1.
C10_Tokens0And1 ==
    C10_Scenario =>
        /\ smp_result.probs = [n |-> <<5, 3, 0>>, d |-> 10]
        /\ smp_result.token \in {0, 1}

\* The scenario of C10 returning token 1.
C10_Witness ==
    C10_Scenario /\ smp_result.token = 1

\* A call has come back, with a token or with an error.
CallDone ==
    smp_pc = "returned"

\* C11: with a temperature and a penalty configured the penalties are taken
\* off before the softmax, so the values handed on to top-k / top-p are a
\* normalized distribution: none is negative and they sum to 1.
C11_PenaltyBeforeSoftmax ==
    (CallDone /\ temperature # <<>> /\ ~penalties_are_none(self)
        /\ smp_ctxt # <<>> /\ logits_bias = <<>>) =>
        /\ \A j \in DOMAIN smp_result.handed.n : smp_result.handed.n[j] >= 0
        /\ SumSeq(smp_result.handed.n) = smp_result.handed.d

\* The vector has one largest entry.
UniqueMax(n) ==
    \E j \in DOMAIN n : \A k \in DOMAIN n : k # j => n[k] < n[j]

\* The sampler was built without temperature or with one below 1e-7.
BuiltForArgmax ==
    temperature_arg = <<>> \/ temperature_arg[1] < TemperatureFloor

\* C12: a sampler built with temperature None or below 1e-7, without penalty
\* and bias, returns the index of the largest logit whenever it is unique (a
\* call asking for more top logprobs than there are logits is left aside).
C12_ArgmaxToken ==
    (CallDone /\ BuiltForArgmax /\ PlainSampler /\ UniqueMax(smp_logits)
        /\ (smp_return_logprobs => top_n_logprobs <= Len(smp_logits))) =>
        /\ ~smp_result.err
        /\ \A k \in DOMAIN smp_logits : smp_logits[k] <= smp_logits[smp_result.token + 1]
        /\ ~smp_result.drew

\* A sampler built with temperature 5e-8 has returned the middle token of
\* 1.5 / 5.0 / 2.0.
C12_Witness ==
    /\ Returned
    /\ temperature_arg = <<5>>
    /\ smp_logits = <<15, 50, 20>>
    /\ smp_result.token = 1

\* C13: with return_logprobs the i-th entry of top_logprobs is the token with
\* the i-th largest value and carries the log10 of that token's own value; the
\* list has top_n_logprobs entries.
C13_TopLogprobsPaired ==
    (Returned /\ smp_return_logprobs) =>
        LET top == smp_result.top_logprobs
            v == smp_result.probs
        IN  /\ Len(top) = top_n_logprobs
            /\ \A i \in DOMAIN top :
                  /\ top[i].logprob = Log10Value(v.n[top[i].token + 1], v.d)
                  /\ \A k \in DOMAIN top : i < k => v.n[top[i].token + 1] >= v.n[top[k].token + 1]
                  /\ \A t \in DOMAIN v.n :
                        (\A k \in DOMAIN top : top[k].token # t - 1) =>
                            v.n[t] <= v.n[top[i].token + 1]

\* Occurrences of token id t in the context.
Occurrences(context, t) ==
    Cardinality({i \in DOMAIN context : context[i] = t})

\* The values before the penalty step of the call under observation.
BeforePenalty ==
    TemperatureStep(temperature, smp_logits)

\* C14: the penalty step replaces entry j by value[j] - count_j * repeat_penalty
\* - (presence_penalty if count_j > 0), and leaves the entries of tokens that
\* are not in the context as they are; without temperature, logits 2.0 / 2.0,
\* context [0], presence 0.5 and repeat 0.0 give 1.5 / 2.0 and token 1.
C14_PenaltyFormula ==
    (CallDone /\ ~penalties_are_none(self) /\ smp_ctxt # <<>>) =>
        LET rp == IF repeat_penalty = <<>> THEN 0 ELSE repeat_penalty[1]
            pp == IF presence_penalty = <<>> THEN 0 ELSE presence_penalty[1]
            ctx == smp_ctxt[1]
        IN  /\ smp_result.penalized.d = BeforePenalty.d
            /\ \A j \in DOMAIN smp_logits :
                  LET c == Occurrences(ctx, j - 1)
                  IN  /\ smp_result.penalized.n[j] =
                            BeforePenalty.n[j] - c * rp - (IF c > 0 THEN pp ELSE 0)
                      /\ c = 0 => smp_result.penalized.n[j] = BeforePenalty.n[j]
            /\ (temperature = <<>> /\ smp_logits = <<20, 20>> /\ ctx = <<0>>
                    /\ pp = 5 /\ rp = 0) =>
                  /\ smp_result.handed = [n |-> <<15, 20>>, d |-> 10]
                  /\ smp_result.token = 1

\* The scenario of C14 with repeat_penalty Some(0.0).
C14_Witness ==
    /\ Returned
    /\ temperature = <<>>
    /\ smp_logits = <<20, 20>>
    /\ smp_ctxt = << <<0>> >>
    /\ presence_penalty = <<5>>
    /\ repeat_penalty = <<0>>
    /\ smp_result.token = 1

\* C15: without temperature the logprob of the returned token is the log10 of
\* its softmax probability, a number <= 0; for 1.0 / 5.0 / 3.0 / 2.0 it is
\* token 1 with about -0.021.
C15_ArgmaxLogprob ==
    (Returned /\ temperature = <<>>) =>
        /\ smp_result.logprob.kind = "num"
        /\ smp_result.logprob.milli <= 0
        /\ (PlainSampler /\ smp_logits = <<10, 50, 30, 20>>) =>
              /\ smp_result.token = 1
              /\ smp_result.logprob.milli = -21

\* C16: with a temperature and top_k <= 0, the tokens that keep a weight under
\* a top_p are a subset of those under any larger top_p up to 1.
C16_TopPMonotone ==
    (CallDone /\ temperature # <<>> /\ topk <= 0 /\ topp \in 1 .. 10
        /\ smp_result.why # "context" /\ smp_result.why # "bias") =>
        \A p1 \in 1 .. topp :
            Support(sample_topkp(smp_result.handed, topk, p1).probs.n)
                \subseteq Support(smp_result.probs.n)

\* Probabilities 0.5 / 0.3 / 0.2 with top_k = 0: top_p = 0.9 keeps all three
\* tokens, top_p = 0.5 only token 0.
C16_Witness ==
    /\ ReturnedSampling
    /\ topk = 0
    /\ topp = 9
    /\ smp_logits = <<5, 3, 2>>
    /\ Support(smp_result.probs.n) = {1, 2, 3}
    /\ Support(sample_topkp(smp_result.handed, topk, 5).probs.n) = {1}

BiasOf(bias, t) ==
    SumSeq([i \in DOMAIN bias |-> IF bias[i][1] = t THEN bias[i][2] ELSE 0])

\* C18: with a logit bias configured every entry of the map is added once to
\* the value at its id and no other value changes; an id outside the vector
\* makes the call fail without a token, wherever the map yields that entry.
C18_LogitBias ==
    (CallDone /\ logits_bias # <<>> /\ smp_result.why # "context") =>
        IF \E i \in DOMAIN logits_bias : logits_bias[i][1] >= Len(smp_logits)
        THEN /\ smp_result.err
             /\ smp_result.why = "bias"
             /\ smp_result.tokens = {}
        ELSE /\ smp_result.why # "bias"
             /\ smp_result.handed.d = smp_result.penalized.d
             /\ \A j \in DOMAIN smp_logits :
                   smp_result.handed.n[j] =
                       smp_result.penalized.n[j] + BiasOf(logits_bias, j - 1)

\* The map yields a valid entry first and one with an id outside the vector
\* after it: the call fails.
C18_Witness ==
    /\ CallDone
    /\ logits_bias = << <<0, 5>>, <<5, 5>> >>
    /\ smp_result.err
    /\ smp_result.why = "bias"

\* The generator's state before the call under observation.
RngBefore ==
    IF smp_result.drew THEN (rng + 3) % 4 ELSE rng

\* C19: a call fails without a token when a penalty is configured and no
\* context is given; without any penalty the missing context changes nothing
\* (the call returns what it returns with a context) and is no error.
C19_MissingContext ==
    (CallDone /\ smp_ctxt = <<>>) =>
        IF repeat_penalty # <<>> \/ presence_penalty # <<>>
        THEN /\ smp_result.err
             /\ smp_result.why = "context"
             /\ smp_result.tokens = {}
             /\ ~smp_result.drew
        ELSE /\ smp_result.why # "context"
             /\ \A c \in ContextLists :
                   smp_result = Sampler_sample(self, smp_logits, <<c>>,
                                               smp_return_logprobs, rng_output(RngBefore))
             /\ (logits_bias = <<>> /\ ~smp_return_logprobs) => ~smp_result.err

\* Only the presence penalty is configured and no context is given: an error.
C19_Witness ==
    /\ CallDone
    /\ repeat_penalty = <<>>
    /\ presence_penalty = <<0>>
    /\ smp_ctxt = <<>>
    /\ smp_result.err
    /\ smp_result.why = "context"

\* --------------------------------------------------- block manager claims
\* Sum of f over the finite set S.
RECURSIVE SumOver(_, _)
SumOver(f, S) ==
    IF S = {} THEN 0
    ELSE LET x == CHOOSE y \in S : TRUE
         IN  f[x] + SumOver(f, S \ {x})

\* The blocks that some table holds, and those on the free-list.
InUse ==
    {b \in BlockIds : \E s \in SeqIds : \E i \in DOMAIN blocks[s] : blocks[s][i] = b}

OnFreeList ==
    {b \in BlockIds : \E i \in DOMAIN free_list : free_list[i] = b}

\* C20: after any sequence of allocate, fork and free the sum of the refcounts
\* is the sum of the lengths of the tables, a block with refcount 0 is on the
\* free-list and in no table, a block on the free-list has refcount 0, and the
\* size of the free-list plus the number of blocks in use is the number of
\* blocks.
C20_RefcountConservation ==
    /\ SumOver(refcount, BlockIds) = SumOver([s \in SeqIds |-> Len(blocks[s])], SeqIds)
    /\ \A b \in BlockIds : refcount[b] = 0 => (b \in OnFreeList /\ b \notin InUse)
    /\ \A b \in OnFreeList : refcount[b] = 0
    /\ Len(free_list) + Cardinality(InUse) = NumBlocks

\* A table whose blocks went through the free-list before (its handles are
\* out of the pool's order) has been forked: both tables hold the same two
\* blocks with refcount 2 and the free-list has the rest.
C20_Witness ==
    /\ bm_last = [op |-> "fork", result |-> "Ok"]
    /\ \E s \in SeqIds, t \in SeqIds :
          /\ s # t
          /\ blocks[s] = blocks[t]
          /\ Len(blocks[s]) = 2
          /\ blocks[s][1] > blocks[s][2]
          /\ \A i \in DOMAIN blocks[s] : refcount[blocks[s][i]] = 2
    /\ free_list # <<>>

\* What a sequence sees at its committed positions, under given tables,
\* storage and committed counts.
ViewOf(tables, content, written, seq) ==
    [p \in 0 .. written[seq] - 1 |->
        content[SlotOf(tables[seq], p).block][SlotOf(tables[seq], p).slot]]

Serialization ==
    IF tj_indent # <<>> THEN to_string_pretty(tj_value, tj_indent[1]) ELSE to_string(tj_value)

Replaced ==
    {"<", ">", "&", "'"}

\* The two hexadecimal digits of the escape of a replaced character.
EscapeDigits(c) ==
    CASE c = "<" -> <<"3", "c">>
      [] c = ">" -> <<"3", "e">>
      [] c = "&" -> <<"2", "6">>
      [] OTHER -> <<"2", "7">>

\* Where the image of the i-th character of the serialization starts in the
\* result: every replaced character before it takes five places more.
ImageStart(i) ==
    i + 5 * Cardinality({k \in 1 .. i - 1 : Serialization[k] \in Replaced})

\* C23: the string tojson returns, with or without indent, has none of the
\* characters < > & and apostrophe; each of them in the serialization is
\* replaced by its \u00XX escape and every other character is kept, in order.
C23_TojsonEscapes ==
    tj_pc = "done" =>
        /\ \A j \in DOMAIN tj_result : tj_result[j] \notin Replaced
        /\ Len(tj_result) = ImageStart(Len(Serialization) + 1) - 1
        /\ \A i \in DOMAIN Serialization :
              IF Serialization[i] \in Replaced
              THEN /\ tj_result[ImageStart(i)] = "\\"
                   /\ tj_result[ImageStart(i) + 1] = "u"
                   /\ tj_result[ImageStart(i) + 2] = "0"
                   /\ tj_result[ImageStart(i) + 3] = "0"
                   /\ tj_result[ImageStart(i) + 4] = EscapeDigits(Serialization[i])[1]
                   /\ tj_result[ImageStart(i) + 5] = EscapeDigits(Serialization[i])[2]
              ELSE tj_result[ImageStart(i)] = Serialization[i]

\* The list ["'", "<"] with indent 2 has been rendered: two lines of two
\* spaces, a quote, an escape of six characters and a quote.
C23_Witness ==
    /\ tj_pc = "done"
    /\ tj_value = ListValue(<< <<"'">>, <<"<">> >>)
    /\ tj_indent = <<2>>
    /\ Len(tj_result) = 26
    /\ tj_result[11] = "7"
    /\ tj_result[23] = "c"

\* The strings the three sources resolve to: the template's eos_token, the
\* alternates the vocabulary has, the decoded ids of the generation config.
ResolvedStrings ==
    {eos_token[i] : i \in DOMAIN eos_token}
        \cup {SUPPORTED_ALTERNATE_EOS[i] : i \in
                {k \in DOMAIN SUPPORTED_ALTERNATE_EOS :
                    \E id \in vocab : TokenTable[id + 1].key = SUPPORTED_ALTERNATE_EOS[k]}}
        \cup (IF gen_conf = <<>> THEN {}
              ELSE {IF gen_conf[1][i] \in vocab THEN TokenTable[gen_conf[1][i] + 1].text ELSE ""
                        : i \in DOMAIN gen_conf[1]})

\* C22: calculate_eos_tokens returns the ids of the distinct resolved strings,
\* each once: the list holds no id twice, also when the template's eos_token
\* is one of the alternates.
C22_EosUnion ==
    (eos_pc = "done" /\ ~eos_toks.panic) =>
        /\ \A i \in DOMAIN eos_toks.toks : \A j \in DOMAIN eos_toks.toks :
              i # j => eos_toks.toks[i] # eos_toks.toks[j]
        /\ {eos_toks.toks[i] : i \in DOMAIN eos_toks.toks}
              = {id \in vocab : TokenTable[id + 1].key \in ResolvedStrings}

\* ------------------------------------------------ speculative cache claims
\* The observed operations of k iterations of the draft loop.
RECURSIVE DraftOps(_)
DraftOps(k) ==
    IF k = 0 THEN <<>>
    ELSE DraftOps(k - 1)
            \o <<IF k = 1 THEN "draft_prompt_forward" ELSE "draft_forward", "draft_sample">>

\* The operations of a completed step with g draft completions, in order.
StepOrder(g, prompt) ==
    DraftOps(g) \o <<"draft_reset">> \o (IF prompt THEN <<>> ELSE <<"narrow">>)
        \o <<"target_forward", "rejection", "commit">>

\* The operation a transition has just added to the observed ones.
JustDid(op) ==
    /\ Len(step_ops') > Len(step_ops)
    /\ step_ops'[Len(step_ops')] = op

\* C24: a step that completes has performed gamma draft forwards (the first a
\* prompt pass, the later ones on the draft's cache), each followed by a sample
\* appended as a temporary token, then the draft reset, then (non-prompt step
\* only) the shortening of every populated target layer by one position, then
\* one target forward, then rejection sampling and commit; the draft cache is
\* empty when the target forward runs and when the step returns.
C24_StepOrder ==
    [][/\ (step_result = "running" /\ step_result' = "Ok") =>
            /\ step_ops = StepOrder(gamma, is_prompt)
            /\ draft_cache' = NoneCache
       /\ JustDid("draft_sample") =>
            /\ \A layer \in Layers : draft_cache'[layer] = <<Len(seq_toks)>>
            /\ Len(seq_toks') = Len(seq_toks) + 1
       /\ JustDid("narrow") =>
            \A layer \in Layers :
                target_cache[layer] # <<>> =>
                    /\ target_cache'[layer] # <<>>
                    /\ target_cache'[layer][1] = target_cache[layer][1] - 1
       /\ JustDid("target_forward") => draft_cache = NoneCache
      ]_vars

\* A non-prompt step with two draft completions is about to return.
C24_Witness ==
    /\ pc = "commit"
    /\ committed >= Len(accepted_tokens)
    /\ gamma = 2
    /\ Len(step_ops) = 9
    /\ step_ops[6] = "narrow"
    /\ draft_cache = NoneCache
    /\ target_cache[1] # <<>>

\* C25: at the start of a non-prompt step the target cache holds, on every
\* layer, exactly one entry per committed token of the sequence, whatever
\* number of drafted tokens the previous step accepted, so that shortening it
\* by one leaves the positions of all committed tokens but the last.
C25_TargetCacheCommitted ==
    (pc = "draft" /\ ~is_prompt /\ loop_i = 0) =>
        \A layer \in Layers : target_cache[layer] = <<Len(seq_toks)>>

\* C26: when a draft forward, a draft sampling call or the target forward
\* fails, step returns the error with the sequence as it was at step entry: no
\* temporary token left appended, the last committed token not left removed,
\* no prefill-token override left set.
C26_ErrorLeavesSequence ==
    [][(step_result = "running" /\ step_result' = "Err") =>
            /\ seq_toks' = entry_toks
            /\ seq_prefill' = <<>>
      ]_vars

\* ------------------------------------------------- weighted draw claim
\* C27: with a temperature set, an in-range logit bias and the penalty context
\* provided, every weight handed to the weighted draw is >= 0 and one of them
\* is > 0: the call never fails in the weighted draw.
C27_WeightsDrawable ==
    (CallDone /\ temperature # <<>> /\ smp_result.why \notin {"context", "bias"}) =>
        /\ \A j \in DOMAIN smp_result.probs.n : smp_result.probs.n[j] >= 0
        /\ \E j \in DOMAIN smp_result.probs.n : smp_result.probs.n[j] > 0
        /\ smp_result.why # "weights"

\* ------------------------------------------------------ attention claims
\* C28: a text-only forward of a model with a cross-attention layer never
\* tries to take the lock of the cross-attention cache while it holds the
\* guard it took at its start, so it does not wait on itself.
C28_NoSelfWait ==
    (/\ ml_pc # "idle"
     /\ ml_cross_attn_states = <<>>
     /\ \E layer \in DOMAIN ml_layers : ml_layers[layer] = "CrossAttn") =>
        ~(ml_pc = "waits" /\ ml_cross_lock = "held")

\* The number of times op occurs in ops.
CountOp(ops, op) ==
    Cardinality({i \in DOMAIN ops : ops[i] = op})

\* C29: a call that returns Ok with a KV cache has written the new keys and
\* values once, at the slots of the slot mapping and nowhere else, before any
\* read of the cache by the decode path; with an attention mask the result is
\* the attention over the call's own K/V and the cache is not read; without a
\* KV cache nothing is written.
C29_WriteOnceBeforeRead ==
    pa_pc = "done" =>
        /\ (pa_kv_cache /\ pa_result.outcome = "Ok") =>
              /\ CountOp(pa_ops, "reshape_and_cache") = 1
              /\ \A slot \in SlotIds :
                    IF \E t \in DOMAIN pa_slot_mapping : pa_slot_mapping[t] = slot
                    THEN \A t \in DOMAIN pa_slot_mapping :
                            pa_slot_mapping[t] = slot =>
                                /\ pa_k_cache[slot] = pa_key[t]
                                /\ pa_v_cache[slot] = pa_value[t]
                    ELSE /\ pa_k_cache[slot] = pa_entry.k[slot]
                         /\ pa_v_cache[slot] = pa_entry.v[slot]
        /\ \A i \in DOMAIN pa_ops :
              pa_ops[i] = "paged_attention" =>
                  /\ \E j \in 1 .. i - 1 : pa_ops[j] = "reshape_and_cache"
                  /\ pa_result.att.kind = "paged"
                  /\ pa_result.att.k = pa_k_cache
                  /\ pa_result.att.v = pa_v_cache
        /\ (pa_mask /\ pa_result.outcome = "Ok") =>
              /\ pa_result.att.kind = "prefill"
              /\ pa_result.att.k = pa_key
              /\ pa_result.att.v = pa_value
              /\ CountOp(pa_ops, "paged_attention") = 0
        /\ ~pa_kv_cache =>
              /\ pa_k_cache = pa_entry.k
              /\ pa_v_cache = pa_entry.v
              /\ CountOp(pa_ops, "reshape_and_cache") = 0

\* A decode call with two tokens has overwritten one slot, filled another and
\* read the cache after that.
C29_Witness ==
    /\ pa_pc = "done"
    /\ pa_kv_cache
    /\ ~pa_mask
    /\ pa_result.outcome = "Ok"
    /\ pa_ops = <<"reshape_and_cache", "paged_attention">>
    /\ pa_slot_mapping = <<2, 0>>
    /\ pa_key = <<1, 2>>
    /\ pa_entry.k = [slot \in SlotIds |-> IF slot = 2 THEN 2 ELSE 0]
    /\ pa_result.att.k = [slot \in SlotIds |-> IF slot = 2 THEN 1 ELSE IF slot = 0 THEN 2 ELSE 0]

\* The newest chunk of a stored tensor.
Newest(chunks) ==
    chunks[Len(chunks)]

\* C30: a cross-attention layer run with cross_attn_states stores as key the
\* k_norm of the (q-normalised) query; the k_proj of cross_attn_states is
\* dropped, so the call with any other cross_attn_states stores the same keys,
\* and the values are the v_proj of the states given.
C30_KeyFromQuery ==
    [][(/\ ml_pc = "layers"
        /\ ml_i <= Len(ml_layers)
        /\ ml_cross_attn_states # <<>>
        /\ ml_i' = ml_i + 1
        /\ ml_layers[ml_i] = "CrossAttn") =>
           LET stored == ml_cross_cache'[ml_i][1]
               q == Op("q_norm", <<Op("q_proj",
                        <<Op("input_layernorm", <<ml_hidden_states>>)>>)>>)
           IN  /\ Newest(stored.k) = Op("k_norm", <<q>>)
               /\ Newest(stored.v) = Op("v_proj", <<ml_cross_attn_states[1]>>)
               /\ \A other \in CrossAttnStates :
                     LET r == MLlamaCrossAttentionDecoderLayer_forward(
                                  ml_hidden_states, <<other>>, ml_cross_cache[ml_i])
                     IN  /\ r.kv_cache[1].k = stored.k
                         /\ (other # ml_cross_attn_states[1]) =>
                               r.kv_cache[1].v # stored.v
      ]_vars

\* Two calls with the same input_ids and different cross_attn_states have run
\* the first layer, a cross-attention layer: equal keys, different values.
C30_Witness ==
    /\ ml_layers[1] = "CrossAttn"
    /\ ml_calls = 2
    /\ ml_cross_cache[1] # <<>>
    /\ Len(ml_cross_cache[1][1].k) = 2
    /\ ml_cross_cache[1][1].k[1] = ml_cross_cache[1][1].k[2]
    /\ ml_cross_cache[1][1].v[1] # ml_cross_cache[1][1].v[2]

====
